---- MODULE Spec2Model ----
(***************************************************************************)
(* MyGAP scraper: the two producers extract_mygap_am_data (scrap_am.py)    *)
(* and extract_mygap_tanaman_data (scrap_tanaman.py), the follow-up batch  *)
(* fetch of truncated cells, and the freshness gate of the data endpoints  *)
(* (main.py).                                                              *)
(*                                                                         *)
(* Texts are sequences of tokens (strings): a word token ("a", "B", a url  *)
(* name) stands for a run of characters holding neither 'More' nor a dot   *)
(* nor a comma nor white space; "More", ".", ",", " " stand for            *)
(* themselves.  The empty sequence is the empty string.                    *)
(***************************************************************************)
EXTENDS Integers, Sequences, FiniteSets, TLC

VARIABLES
    category,         \* which producer runs: "am" or "tanaman"
    save_to_file,     \* the producer's argument
    listing,          \* the listing page the site serves: [status, loose, rows]
    pc,               \* position of the producer run
    header_row_index, \* 0-based index of the header row (-1: None)
    field_to_col_map, \* field -> 0-based column position
    row_cursor,       \* number of rows after the header already visited
    extracted_data,   \* list of records
    dialog_requests,  \* list of [field, url, row_index]
    futures,          \* per submitted request: [state, outcome, value]
    collect_cursor,   \* number of futures the main thread is done with
    results,          \* batch result map: set of [row_index, field, content]
    fetch_log,        \* follow-up urls requested so far, in request order
    ret,              \* what the producer returned: [kind, data]
    files,            \* the JSON artifacts on disk: set of [category, stamp, mtime, content]
    overtaken,        \* history: an answer arrived before that of an earlier request
    now,              \* the wall clock, in hours
    handlers,         \* per caller: the state of its call to a data endpoint
    calls,            \* number of calls to data endpoints started so far
    serial,           \* TRUE: one event loop runs each handler to its end
    fetch_history,    \* history: the producer runs that returned to a handler
    site,             \* the follow-up endpoint: free, or one fixed outcome per url
    run_no,           \* number of the producer run in progress in this process
    first_ret,        \* what the first producer run returned
    fn_pc,            \* position of a function under test
    fn_arg,           \* its argument
    fn_file,          \* the JSON text it wrote
    fn_out            \* its result

vars == << category, save_to_file, listing, pc, header_row_index,
           field_to_col_map, row_cursor, extracted_data, dialog_requests,
           futures, collect_cursor, results, fetch_log, ret, files, overtaken,
           now, handlers, calls, serial, fetch_history,
           site, run_no, first_ret, fn_pc, fn_arg, fn_file, fn_out >>

\* the variables of the serving layer
fn_vars == << fn_pc, fn_arg, fn_file, fn_out >>
run_vars == << site, run_no, first_ret >>
gate_vars == << now, handlers, calls, serial, fetch_history, run_vars, fn_vars >>

-----------------------------------------------------------------------------
(* Bounds of the model *)

\* most rows after the header row in a served table
MaxRows == 3

-----------------------------------------------------------------------------
(* Schemas *)

AM_DATA_FIELDS ==
    << "no_pensijilan", "projek", "nama", "negeri", "daerah", "jenis_tanaman",
       "kategori_komoditi", "kategori_tanaman", "bil_haif", "luas_ladang",
       "tahun_pensijilan", "tarikh_pensijilan", "tempoh_sah_laku" >>

TANAMAN_DATA_FIELDS ==
    << "no_pensijilan", "projek", "nama", "negeri", "daerah", "jenis_tanaman",
       "kategori_komoditi", "kategori_tanaman", "luas_ladang",
       "tahun_pensijilan", "tarikh_pensijilan", "tempoh_sah_laku" >>

DATA_FIELDS(cat) == IF cat = "am" THEN AM_DATA_FIELDS ELSE TANAMAN_DATA_FIELDS

Range(s) == { s[i] : i \in 1..Len(s) }

FieldSet(cat) == Range(DATA_FIELDS(cat))

-----------------------------------------------------------------------------
(* Text operations used by the row extractor *)

IsSpace(tok) == tok \in { " ", "\n" }

RECURSIVE LStrip(_)
LStrip(t) == IF t # << >> /\ IsSpace(Head(t)) THEN LStrip(Tail(t)) ELSE t

RECURSIVE RStrip(_)
RStrip(t) ==
    IF t # << >> /\ IsSpace(t[Len(t)]) THEN RStrip(SubSeq(t, 1, Len(t) - 1)) ELSE t

\* str.strip()
Strip(t) == RStrip(LStrip(t))

\* 'More' in cell_data and '...' in cell_data
HasMoreMarker(t) ==
    /\ \E i \in 1..Len(t) : t[i] = "More"
    /\ \E i \in 1..Len(t) : i + 2 <= Len(t) /\ t[i] = "." /\ t[i+1] = "." /\ t[i+2] = "."

\* does  More\s*\.+$  match t starting at position i
MoreSuffixAt(t, i) ==
    /\ t[i] = "More"
    /\ \E d \in (i + 1)..Len(t) :
          /\ \A k \in (i + 1)..(d - 1) : IsSpace(t[k])
          /\ \A k \in d..Len(t) : t[k] = "."

\* re.sub(r'More\s*\.+$', '', cell_data): the leftmost match is removed
RemoveMoreSuffix(t) ==
    LET starts == { i \in 1..Len(t) : MoreSuffixAt(t, i) }
    IN  IF starts = {} THEN t
        ELSE LET i == CHOOSE j \in starts : \A k \in starts : j <= k
             IN  SubSeq(t, 1, i - 1)

\* the clean-up of a marker cell that has no follow-up link
CleanMoreSuffix(t) ==
    LET s == Strip(RemoveMoreSuffix(t))
    IN  IF s # << >> /\ s[Len(s)] = "," THEN Strip(SubSeq(s, 1, Len(s) - 1)) ELSE s

-----------------------------------------------------------------------------
(* The listing document.  A cell is what BeautifulSoup gives for a th/td:   *)
(* kind (tag name), field (its data-field attribute, "" when it has none),  *)
(* text (get_text(strip=True)), link (the data-query of the first anchor    *)
(* in the cell whose data-query matches fulltext\.php, "" when none).       *)
(* listing.loose tells where a th tagged with the first schema field sits   *)
(* outside the table's rows: "none", "orphan" (before the table, in no      *)
(* table at all) or "in_table" (a child of the table, in no tr).            *)

Cell(kind, field, text, link) ==
    [ kind |-> kind, field |-> field, text |-> text, link |-> link ]

RowWords == << "r1", "r2", "r3", "r4", "r5", "r6" >>
UrlNames == << "u1", "u2", "u3", "u4", "u5", "u6" >>

TxtTrunc == << "a", ",", "More", " ", ".", ".", "." >>
TxtOnlyMore == << "More", " ", ".", ".", "." >>

HeaderFull == << Cell("th", "no_pensijilan", << "No" >>, ""),
                 Cell("th", "jenis_tanaman", << "Jenis" >>, "") >>
HeaderTd == << Cell("td", "no_pensijilan", << "No" >>, ""),
               Cell("td", "jenis_tanaman", << "Jenis" >>, "") >>
UntaggedRow == << Cell("th", "", << "Senarai" >>, "") >>
\* a row whose cells hold the marker and no follow-up link: one with the
\* marker inside the text, one with the marker as its suffix
TxtMoreInside == << "More", " ", ".", ".", ".", " ", "b" >>
UnlinkedMarkerRow == << Cell("td", "", TxtMoreInside, ""), Cell("td", "", TxtTrunc, "") >>
\* a second tagged row, with the two columns the other way round
HeaderSwapped == << Cell("th", "jenis_tanaman", << "Jenis" >>, ""),
                    Cell("th", "no_pensijilan", << "No" >>, "") >>

\* the rows a table may hold at position i after its header row
DataRowShapes(i) ==
    { << >>,
      << Cell("td", "", << >>, ""), Cell("td", "", << >>, "") >>,
      << Cell("td", "", << RowWords[i] >>, "") >>,
      << Cell("td", "", << RowWords[i] >>, ""), Cell("td", "", TxtTrunc, UrlNames[i]) >>,
      << Cell("td", "", << >>, ""), Cell("td", "", TxtOnlyMore, "") >> }

RECURSIVE DataRowSeqs(_)
DataRowSeqs(n) ==
    IF n = 0 THEN { << >> }
    ELSE { Append(d, r) : d \in DataRowSeqs(n - 1), r \in DataRowShapes(n) }

DataRowsUpTo(n) == UNION { DataRowSeqs(k) : k \in 0..n }

Listings ==
    \* a table with a th-tagged header row and any rows after it
    { [ status |-> 200, loose |-> "none", rows |-> << HeaderFull >> \o d ] :
        d \in DataRowsUpTo(MaxRows) }
    \cup
    \* tables whose header cannot be located or resolved
    { [ status |-> 200, loose |-> l, rows |-> h \o d ] :
        l \in { "none", "orphan", "in_table" },
        h \in { << >>, << UntaggedRow >>, << HeaderTd >>, << HeaderFull >>,
                << UntaggedRow, HeaderFull >>, << HeaderFull, HeaderSwapped >> },
        d \in DataRowsUpTo(1) }
    \cup
    \* a table whose first data row holds marker cells without a link
    { [ status |-> 200, loose |-> "none",
        rows |-> << HeaderFull, UnlinkedMarkerRow >> \o d ] : d \in DataRowsUpTo(1) }
    \cup
    \* error answers of the site
    { [ status |-> st, loose |-> "none", rows |-> r ] :
        st \in { 404, 503 },
        r \in { << >> } \cup { << HeaderFull >> \o d : d \in DataRowSeqs(1) } }

-----------------------------------------------------------------------------
(* Column resolver *)

\* soup.find('th', {'data-field': DATA_FIELDS[0]})
HasTargetHeader(cat, doc) ==
    \/ doc.loose # "none"
    \/ \E i \in 1..Len(doc.rows) : \E j \in 1..Len(doc.rows[i]) :
          /\ doc.rows[i][j].kind = "th"
          /\ doc.rows[i][j].field = DATA_FIELDS(cat)[1]

\* target_header.find_parent('table') found a table
HasParentTable(cat, doc) ==
    /\ HasTargetHeader(cat, doc)
    /\ doc.loose # "orphan"

\* temp_map of one row: a later cell with the same tag overwrites an earlier one
TempMap(cat, row) ==
    LET tagged == { f \in FieldSet(cat) : \E j \in 1..Len(row) : row[j].field = f }
    IN  [ f \in tagged |->
            (CHOOSE j \in 1..Len(row) :
                /\ row[j].field = f
                /\ \A k \in 1..Len(row) : row[k].field = f => k <= j) - 1 ]

\* 1-based positions of the rows that yield a non-empty temp_map
TaggedRows(cat, rows) == { i \in 1..Len(rows) : DOMAIN TempMap(cat, rows[i]) # {} }

\* a scan that does not stop at the first tagged row
LastTaggedRow(cat, rows) ==
    CHOOSE i \in TaggedRows(cat, rows) : \A k \in TaggedRows(cat, rows) : i >= k

FirstTaggedRow(cat, rows) ==
    CHOOSE i \in TaggedRows(cat, rows) : \A k \in TaggedRows(cat, rows) : i <= k

-----------------------------------------------------------------------------
(* Row extractor *)

\* a row extractor that stores the text of every cell as it is
CellValueRaw(cat, cell) == cell.text

\* the text kept for a cell: only the tanaman producer looks for the marker,
\* and it cleans the text only when the cell has no follow-up link
CellValue(cat, cell) ==
    IF cat = "tanaman" /\ HasMoreMarker(cell.text) /\ cell.link = ""
    THEN CleanMoreSuffix(cell.text)
    ELSE cell.text

FieldValue(cat, cells, map, f) ==
    IF f \in DOMAIN map
    THEN IF Len(cells) > map[f] THEN CellValue(cat, cells[map[f] + 1]) ELSE << >>
    ELSE << >>

\* row_data once the loop over DATA_FIELDS is over
RowData(cat, cells, map) ==
    [ f \in FieldSet(cat) |-> FieldValue(cat, cells, map, f) ]

\* a has_data that looks at the first schema field only
HasDataFirstFieldOnly(cat, cells, map) ==
    FieldValue(cat, cells, map, DATA_FIELDS(cat)[1]) # << >>

\* has_data once the loop over DATA_FIELDS is over
HasData(cat, cells, map) ==
    \E f \in FieldSet(cat) : FieldValue(cat, cells, map, f) # << >>

\* does the cell of field f make the tanaman producer enqueue a follow-up
IsDeferred(cat, cells, map, f) ==
    /\ cat = "tanaman"
    /\ f \in DOMAIN map
    /\ Len(cells) > map[f]
    /\ HasMoreMarker(cells[map[f] + 1].text)
    /\ cells[map[f] + 1].link # ""

RECURSIVE RequestsFrom(_, _, _, _, _)
RequestsFrom(cat, cells, map, row_index, k) ==
    IF k > Len(DATA_FIELDS(cat)) THEN << >>
    ELSE LET f == DATA_FIELDS(cat)[k]
             rest == RequestsFrom(cat, cells, map, row_index, k + 1)
         IN  IF IsDeferred(cat, cells, map, f)
             THEN << [ field |-> f, url |-> cells[map[f] + 1].link,
                       row_index |-> row_index ] >> \o rest
             ELSE rest

\* requests that record the row's index counted from one
RowRequestsFromOne(cat, cells, map, row_index) ==
    RequestsFrom(cat, cells, map, row_index + 1, 1)

\* the (field, url, row_index) tuples one row appends to dialog_requests
RowRequests(cat, cells, map, row_index) == RequestsFrom(cat, cells, map, row_index, 1)

-----------------------------------------------------------------------------
(* Follow-up fetch of one truncated cell: get_full_text_from_dialog *)

RECURSIVE ReplaceTokens(_, _, _)
\* every token of t that is in the set toks is replaced by the sequence by
ReplaceTokens(t, toks, by) ==
    IF t = << >> THEN << >>
    ELSE (IF Head(t) \in toks THEN by ELSE << Head(t) >>)
         \o ReplaceTokens(Tail(t), toks, by)

BrTags == { "<br>", "<br/>", "<br />" }
IsTag(tok) == tok \in BrTags \cup { "<b>", "</b>", "<p>", "</p>" }

\* position of the first token of t after position i that is not white space
\* (Len(t) + 1 when there is none)
NextNonSpace(t, i) ==
    IF \E j \in (i + 1)..Len(t) : ~IsSpace(t[j])
    THEN CHOOSE j \in (i + 1)..Len(t) :
            /\ ~IsSpace(t[j])
            /\ \A k \in (i + 1)..(j - 1) : IsSpace(t[k])
    ELSE Len(t) + 1

RECURSIVE CollapseCommas(_)
\* re.sub(r',\s*,', ',', content): matches are found left to right and do not overlap
CollapseCommas(t) ==
    IF t = << >> THEN << >>
    ELSE LET j == NextNonSpace(t, 1)
         IN  IF Head(t) = "," /\ j <= Len(t) /\ t[j] = ","
             THEN << "," >> \o CollapseCommas(SubSeq(t, j + 1, Len(t)))
             ELSE << Head(t) >> \o CollapseCommas(Tail(t))

\* re.sub(r',\s*$', '', content)
TrimTrailingComma(t) ==
    LET at == { i \in 1..Len(t) : t[i] = "," /\ \A k \in (i + 1)..Len(t) : IsSpace(t[k]) }
    IN  IF at = {} THEN t
        ELSE SubSeq(t, 1, (CHOOSE i \in at : \A k \in at : i <= k) - 1)

\* the clean-up of textCont
Sanitize(content) ==
    LET c1 == ReplaceTokens(content, BrTags, << ",", " " >>)
        c2 == SelectSeq(c1, LAMBDA tok : ~IsTag(tok))
        c3 == ReplaceTokens(c2, { "\\n", "\n" }, << ",", " " >>)
        c4 == CollapseCommas(c3)
        c5 == TrimTrailingComma(c4)
    IN  Strip(c5)

\* an optional text: None is [some |-> FALSE]
None == [ some |-> FALSE, text |-> << >> ]
Some(t) == [ some |-> TRUE, text |-> t ]

\* what the follow-up endpoint may answer for a url: raises (session.get
\* raised, e.g. its 10 s timeout or a connection error), status, is_json (the
\* unescaped body parses as JSON), success and has_textCont (the payload's
\* keys), textCont, page_text (the text the HTML fallback extracts)
Reply(raises, status, is_json, success, has_textCont, textCont, page_text) ==
    [ raises |-> raises, status |-> status, is_json |-> is_json, success |-> success,
      has_textCont |-> has_textCont, textCont |-> textCont, page_text |-> page_text ]

Replies(url) ==
    { Reply(FALSE, 200, TRUE, TRUE, TRUE, << url, "<br>", "B" >>, << >>),
      Reply(FALSE, 200, TRUE, TRUE, TRUE, << >>, << >>),
      Reply(FALSE, 200, TRUE, FALSE, TRUE, << url >>, << >>),
      Reply(FALSE, 200, TRUE, TRUE, FALSE, << >>, << >>),
      Reply(FALSE, 404, FALSE, FALSE, FALSE, << >>, << "Not", " ", "Found" >>),
      Reply(TRUE, 0, FALSE, FALSE, FALSE, << >>, << >>),
      Reply(FALSE, 200, FALSE, FALSE, FALSE, << >>, << url >>) }

GetFullTextFromDialog(reply) ==
    IF reply.raises THEN None
    ELSE IF reply.status # 200 THEN None
    ELSE IF reply.is_json
         THEN IF reply.success /\ reply.has_textCont
              THEN Some(Sanitize(reply.textCont))
              ELSE None
         ELSE Some(reply.page_text)

\* fetch_single_dialog: the triple a worker hands back for one request
FetchSingleDialog(req, reply) ==
    [ row_index |-> req.row_index, field |-> req.field,
      content |-> GetFullTextFromDialog(reply) ]

\* Python truth value of a fetched content
Truthy(content) == content.some /\ content.text # << >>

-----------------------------------------------------------------------------
(* One run of a producer *)

\* Retry(status_forcelist=...) of the tanaman session: with retries used up
\* on one of these statuses session.get raises instead of returning
STATUS_FORCELIST == { 429, 500, 502, 503, 504 }

\* batch_fetch_full_content(..., max_workers=3)
MaxWorkers == 3

\* the callers of the data endpoints
Callers == { "c1", "c2" }

NoFile == [ category |-> "", stamp |-> -1, mtime |-> -1,
            content |-> [ form |-> "none", total_records |-> 0, fields |-> << >>,
                          data |-> << >> ] ]

\* raw_data of a handler: None, a list of records, or another JSON value
RawNone == [ kind |-> "none", data |-> << >> ]
RawList(data) == [ kind |-> "list", data |-> data ]
RawOther(kind) == [ kind |-> kind, data |-> << >> ]

NoResponse == [ status |-> 0, source |-> "", total_records |-> 0, data |-> << >> ]

NoReturn == [ kind |-> "running", data |-> << >> ]
ReturnNone == [ kind |-> "none", data |-> << >> ]
ReturnList(data) == [ kind |-> "list", data |-> data ]
Raised == [ kind |-> "raise", data |-> << >> ]

\* a handler before its first statement; json_files, checked_at and file_read
\* record what it saw in the directory, produced whether it called the
\* producer, returned what the producer gave back
IdleHandler ==
    [ pc |-> "idle", endpoint |-> "", category |-> "", json_files |-> {}, checked_at |-> 0,
      has_file |-> FALSE, latest_file |-> NoFile, file_age |-> 0,
      file_read |-> NoFile, raw_data |-> RawNone, data_source |-> "cache",
      produced |-> "no", returned |-> NoReturn, response |-> NoResponse ]

\* rows[header_row_index + 1:]
RowsAfterHeader == SubSeq(listing.rows, header_row_index + 2, Len(listing.rows))

\* the follow-up endpoint answers each request as it pleases
FreeSite == [ fixed |-> FALSE, outcome |-> << >> ]

\* one producer run, nothing returned before it
SingleRun ==
    /\ run_no = 1
    /\ first_ret = NoReturn

\* no function is under test
FnIdle ==
    /\ fn_pc = "off"
    /\ fn_arg = << >>
    /\ fn_file = << >>
    /\ fn_out = << >>

NewFuture == [ state |-> "queued", timed_out |-> FALSE,
               value |-> [ row_index |-> 0, field |-> "", content |-> None ] ]

Init ==
    /\ category \in { "am", "tanaman" }
    /\ save_to_file \in BOOLEAN
    /\ listing \in Listings
    /\ pc = "start"
    /\ header_row_index = -1
    /\ field_to_col_map = << >>
    /\ row_cursor = 0
    /\ extracted_data = << >>
    /\ dialog_requests = << >>
    /\ futures = << >>
    /\ collect_cursor = 0
    /\ results = {}
    /\ fetch_log = << >>
    /\ ret = NoReturn
    /\ files = {}
    /\ overtaken = FALSE
    /\ now = 0
    /\ handlers = [ c \in Callers |-> IdleHandler ]
    /\ calls = 0
    /\ serial = TRUE
    /\ fetch_history = {}
    /\ site = FreeSite
    /\ SingleRun
    /\ FnIdle

\* the listing request; requests.get for am, the retrying session for tanaman
FetchListing ==
    /\ pc = "start"
    /\ IF category = "tanaman" /\ listing.status \in STATUS_FORCELIST
       THEN pc' = "returned" /\ ret' = Raised
       ELSE pc' = "fetched" /\ ret' = ret
    /\ UNCHANGED << category, save_to_file, listing, header_row_index,
                    field_to_col_map, row_cursor, extracted_data, dialog_requests,
                    futures, collect_cursor, results, fetch_log, files, overtaken,
                    gate_vars >>

\* status check, target header and parent table
LocateTable ==
    /\ pc = "fetched"
    /\ IF listing.status # 200 \/ ~HasTargetHeader(category, listing)
          \/ ~HasParentTable(category, listing)
       THEN pc' = "returned" /\ ret' = ReturnNone
       ELSE pc' = "located" /\ ret' = ret
    /\ UNCHANGED << category, save_to_file, listing, header_row_index,
                    field_to_col_map, row_cursor, extracted_data, dialog_requests,
                    futures, collect_cursor, results, fetch_log, files, overtaken,
                    gate_vars >>

\* a column resolver without the check of an empty column map
ResolveColumnsLenient ==
    /\ pc = "located"
    /\ pc' = "rows"
    /\ ret' = ret
    /\ IF TaggedRows(category, listing.rows) = {}
       THEN UNCHANGED << header_row_index, field_to_col_map >>
       ELSE /\ header_row_index' = FirstTaggedRow(category, listing.rows) - 1
            /\ field_to_col_map' =
                  TempMap(category, listing.rows[FirstTaggedRow(category, listing.rows)])
    /\ UNCHANGED << category, save_to_file, listing, row_cursor, extracted_data,
                    dialog_requests, futures, collect_cursor, results, fetch_log,
                    files, overtaken,
                    gate_vars >>

\* the scan for the header row
ResolveColumns ==
    /\ pc = "located"
    /\ IF TaggedRows(category, listing.rows) = {}
       THEN /\ pc' = "returned"
            /\ ret' = ReturnNone
            /\ UNCHANGED << header_row_index, field_to_col_map >>
       ELSE /\ pc' = "rows"
            /\ ret' = ret
            /\ header_row_index' = FirstTaggedRow(category, listing.rows) - 1
            /\ field_to_col_map' =
                  TempMap(category, listing.rows[FirstTaggedRow(category, listing.rows)])
    /\ UNCHANGED << category, save_to_file, listing, row_cursor, extracted_data,
                    dialog_requests, futures, collect_cursor, results, fetch_log,
                    files, overtaken,
                    gate_vars >>

\* a record list that grows at the front
AddRecordFront(data, row_data) == << row_data >> \o data

\* extracted_data.append(row_data)
AddRecord(data, row_data) == Append(data, row_data)

\* one iteration of the loop over rows[header_row_index + 1:]
ExtractRow ==
    /\ pc = "rows"
    /\ row_cursor < Len(RowsAfterHeader)
    /\ LET cells == RowsAfterHeader[row_cursor + 1]
       IN  IF Len(cells) = 0
           THEN UNCHANGED << extracted_data, dialog_requests >>
           ELSE /\ dialog_requests' = dialog_requests
                      \o RowRequests(category, cells, field_to_col_map, row_cursor)
                /\ extracted_data' =
                      IF HasData(category, cells, field_to_col_map)
                      THEN AddRecord(extracted_data,
                                     RowData(category, cells, field_to_col_map))
                      ELSE extracted_data
    /\ row_cursor' = row_cursor + 1
    /\ UNCHANGED << category, save_to_file, listing, pc, header_row_index,
                    field_to_col_map, futures, collect_cursor, results, fetch_log,
                    ret, files, overtaken,
                    gate_vars >>

\* the loop is over: the tanaman producer submits every request to the pool
EndRows ==
    /\ pc = "rows"
    /\ row_cursor = Len(RowsAfterHeader)
    /\ IF category = "tanaman" /\ dialog_requests # << >>
       THEN /\ pc' = "batch"
            /\ futures' = [ k \in 1..Len(dialog_requests) |-> NewFuture ]
       ELSE /\ pc' = "finish"
            /\ futures' = futures
    /\ UNCHANGED << category, save_to_file, listing, header_row_index,
                    field_to_col_map, row_cursor, extracted_data, dialog_requests,
                    collect_cursor, results, fetch_log, ret, files, overtaken,
                    gate_vars >>

Running == { k \in 1..Len(futures) : futures[k].state = "running" }

\* the answers the follow-up endpoint may give to a request for url
SiteReplies(url) ==
    IF site.fixed THEN { site.outcome[url].reply } ELSE Replies(url)

\* may the answer for url arrive within the wait of future.result
SiteInTime(url) == site.fixed => ~site.outcome[url].late

\* may the wait of future.result for url run out
SiteLate(url) == site.fixed => site.outcome[url].late

\* a worker that sends its request twice
WorkerStartTwice(k) ==
    /\ pc = "batch"
    /\ futures[k].state = "queued"
    /\ \A j \in 1..(k - 1) : futures[j].state # "queued"
    /\ Cardinality(Running) < MaxWorkers
    /\ futures' = [ futures EXCEPT ![k].state = "running" ]
    /\ fetch_log' = fetch_log \o << dialog_requests[k].url, dialog_requests[k].url >>
    /\ UNCHANGED << category, save_to_file, listing, pc, header_row_index,
                    field_to_col_map, row_cursor, extracted_data, dialog_requests,
                    collect_cursor, results, ret, files, overtaken,
                    gate_vars >>

\* a free worker takes the oldest queued request and sends it
WorkerStart(k) ==
    /\ pc = "batch"
    /\ futures[k].state = "queued"
    /\ \A j \in 1..(k - 1) : futures[j].state # "queued"
    /\ Cardinality(Running) < MaxWorkers
    /\ futures' = [ futures EXCEPT ![k].state = "running" ]
    /\ fetch_log' = Append(fetch_log, dialog_requests[k].url)
    /\ UNCHANGED << category, save_to_file, listing, pc, header_row_index,
                    field_to_col_map, row_cursor, extracted_data, dialog_requests,
                    collect_cursor, results, ret, files, overtaken,
                    gate_vars >>

\* a worker whose request has no time limit of its own: once the collecting
\* loop gave up on it, its answer never comes
WorkerFinishUnlessGivenUp(k) ==
    /\ pc = "batch"
    /\ futures[k].state = "running"
    /\ ~futures[k].timed_out
    /\ \E reply \in SiteReplies(dialog_requests[k].url) :
          futures' = [ futures EXCEPT
                         ![k].state = "done",
                         ![k].value = FetchSingleDialog(dialog_requests[k], reply) ]
    /\ overtaken' = (overtaken \/ \E j \in 1..(k - 1) : futures[j].state # "done")
    /\ UNCHANGED << category, save_to_file, listing, pc, header_row_index,
                    field_to_col_map, row_cursor, extracted_data, dialog_requests,
                    collect_cursor, results, fetch_log, ret, files,
                    gate_vars >>

\* the answer arrives and fetch_single_dialog returns
WorkerFinish(k) ==
    /\ pc = "batch"
    /\ futures[k].state = "running"
    /\ SiteInTime(dialog_requests[k].url) \/ futures[k].timed_out
    /\ \E reply \in SiteReplies(dialog_requests[k].url) :
          futures' = [ futures EXCEPT
                         ![k].state = "done",
                         ![k].value = FetchSingleDialog(dialog_requests[k], reply) ]
    /\ overtaken' = (overtaken \/ \E j \in 1..(k - 1) : futures[j].state # "done")
    /\ UNCHANGED << category, save_to_file, listing, pc, header_row_index,
                    field_to_col_map, row_cursor, extracted_data, dialog_requests,
                    collect_cursor, results, fetch_log, ret, files,
                    gate_vars >>

\* a result map keyed by the field alone
StoreResultByField(res, value) ==
    { e \in res : e.field # value.field }
    \cup { [ row_index |-> value.row_index, field |-> value.field,
             content |-> value.content.text ] }

\* results[row_index][field] = content
StoreResult(res, value) ==
    { e \in res : ~(e.row_index = value.row_index /\ e.field = value.field) }
    \cup { [ row_index |-> value.row_index, field |-> value.field,
             content |-> value.content.text ] }

\* future.result() of the next future, in submission order
CollectResult ==
    /\ pc = "batch"
    /\ collect_cursor < Len(futures)
    /\ futures[collect_cursor + 1].state = "done"
    /\ results' = IF Truthy(futures[collect_cursor + 1].value.content)
                  THEN StoreResult(results, futures[collect_cursor + 1].value)
                  ELSE results
    /\ collect_cursor' = collect_cursor + 1
    /\ UNCHANGED << category, save_to_file, listing, pc, header_row_index,
                    field_to_col_map, row_cursor, extracted_data, dialog_requests,
                    futures, fetch_log, ret, files, overtaken,
                    gate_vars >>

\* future.result(timeout=30) gives up on a future that is not done
CollectTimeout ==
    /\ pc = "batch"
    /\ collect_cursor < Len(futures)
    /\ futures[collect_cursor + 1].state # "done"
    /\ SiteLate(dialog_requests[collect_cursor + 1].url)
    /\ futures' = [ futures EXCEPT ![collect_cursor + 1].timed_out = TRUE ]
    /\ collect_cursor' = collect_cursor + 1
    /\ UNCHANGED << category, save_to_file, listing, pc, header_row_index,
                    field_to_col_map, row_cursor, extracted_data, dialog_requests,
                    results, fetch_log, ret, files, overtaken,
                    gate_vars >>

\* leaving the with block waits for every worker
EndBatch ==
    /\ pc = "batch"
    /\ collect_cursor = Len(futures)
    /\ \A k \in 1..Len(futures) : futures[k].state = "done"
    /\ pc' = "integrate"
    /\ UNCHANGED << category, save_to_file, listing, header_row_index,
                    field_to_col_map, row_cursor, extracted_data, dialog_requests,
                    futures, collect_cursor, results, fetch_log, ret, files, overtaken,
                    gate_vars >>

\* a phase 3 that takes every row index as it comes
InRangeAlways(row_index, data) == TRUE

\* if row_index < len(extracted_data)
InRange(row_index, data) == row_index < Len(data)

\* the batch results that phase 3 assigns into extracted_data
Assigned(data, res) ==
    { e \in res : InRange(e.row_index, data) /\ e.content # << >> }

\* extracted_data[row_index] with row_index beyond the list
IndexError == [ kind |-> "raise", data |-> << "IndexError" >> ]

\* a phase 3 that writes a content into every field of its record
IntegrateAllFields(data, res) ==
    [ i \in 1..Len(data) |->
        [ f \in DOMAIN data[i] |->
            IF \E e \in Assigned(data, res) : e.row_index = i - 1
            THEN (CHOOSE e \in Assigned(data, res) : e.row_index = i - 1).content
            ELSE data[i][f] ] ]

\* phase 3 applied to a record list
Integrate(data, res) ==
    [ i \in 1..Len(data) |->
        [ f \in DOMAIN data[i] |->
            IF \E e \in Assigned(data, res) : e.row_index = i - 1 /\ e.field = f
            THEN (CHOOSE e \in Assigned(data, res) :
                     e.row_index = i - 1 /\ e.field = f).content
            ELSE data[i][f] ] ]

\* a run that goes on to persistence without applying the batch results
IntegrateResultsSkipped ==
    /\ pc = "integrate"
    /\ pc' = "finish"
    /\ UNCHANGED << category, save_to_file, listing, header_row_index,
                    field_to_col_map, row_cursor, extracted_data, dialog_requests,
                    futures, collect_cursor, results, fetch_log, ret, files,
                    overtaken, gate_vars >>

IntegrateResults ==
    /\ pc = "integrate"
    /\ IF \E e \in Assigned(extracted_data, results) :
             e.row_index >= Len(extracted_data)
       THEN /\ pc' = "returned"
            /\ ret' = IndexError
            /\ extracted_data' = extracted_data
       ELSE /\ pc' = "finish"
            /\ ret' = ret
            /\ extracted_data' = Integrate(extracted_data, results)
    /\ UNCHANGED << category, save_to_file, listing, header_row_index,
                    field_to_col_map, row_cursor, dialog_requests, futures,
                    collect_cursor, results, fetch_log, files, overtaken,
                    gate_vars >>

\* the JSON document save_data(data, format='json') writes
WrappedJson(cat, data) ==
    [ form |-> "wrapped", total_records |-> Len(data), fields |-> DATA_FIELDS(cat),
      data |-> data ]

\* open(name, 'w') and json.dump: a file of the same name is replaced
WriteFile(fs, file) ==
    { g \in fs : ~(g.category = file.category /\ g.stamp = file.stamp) } \cup { file }

\* a save_data that writes an artifact for an empty list as well
SaveDataEvenEmpty(fs, cat, data, t) ==
    WriteFile(fs, [ category |-> cat, stamp |-> t, mtime |-> t,
                    content |-> WrappedJson(cat, data) ])

\* save_data(extracted_data, format='json') at time t: the name holds the
\* category and the time stamp
SaveData(fs, cat, data, t) ==
    IF data = << >> THEN fs
    ELSE WriteFile(fs, [ category |-> cat, stamp |-> t, mtime |-> t,
                         content |-> WrappedJson(cat, data) ])

Finish ==
    /\ pc = "finish"
    /\ files' = IF save_to_file /\ extracted_data # << >>
                THEN SaveData(files, category, extracted_data, now)
                ELSE files
    /\ ret' = ReturnList(extracted_data)
    /\ pc' = "returned"
    /\ UNCHANGED << category, save_to_file, listing, header_row_index,
                    field_to_col_map, row_cursor, extracted_data, dialog_requests,
                    futures, collect_cursor, results, fetch_log, overtaken,
                    gate_vars >>

Next ==
    \/ FetchListing
    \/ LocateTable
    \/ ResolveColumns
    \/ ExtractRow
    \/ EndRows
    \/ \E k \in 1..Len(futures) : WorkerStart(k)
    \/ \E k \in 1..Len(futures) : WorkerFinish(k)
    \/ CollectResult
    \/ CollectTimeout
    \/ EndBatch
    \/ IntegrateResults
    \/ Finish

Spec == Init /\ [][Next]_vars

\* the run under its scheduling: the main thread goes on whenever it can, a
\* pool worker takes up a queued request whenever it is free, and every
\* request a worker sent ends, with an answer or with the exception of
\* session.get(..., timeout=10) after the retries of the session
Fairness ==
    /\ WF_vars(FetchListing \/ LocateTable \/ ResolveColumns \/ ExtractRow \/ EndRows)
    /\ WF_vars(CollectResult \/ CollectTimeout)
    /\ WF_vars(EndBatch \/ IntegrateResults \/ Finish)
    /\ \A k \in 1..MaxRows :
          /\ WF_vars(k \in 1..Len(futures) /\ WorkerStart(k))
          /\ WF_vars(k \in 1..Len(futures) /\ WorkerFinish(k))

\* the runs of extract_mygap_tanaman_data, the producer that has a batch,
\* with the persistence step between phase 3 and the return
LiveInit == Init /\ category = "tanaman" /\ save_to_file

LiveSpec == LiveInit /\ [][Next]_vars /\ Fairness

-----------------------------------------------------------------------------
(* A producer run as one step, for the handlers that call it.  answers[k]    *)
(* is what the batch keeps for the k-th deferred request: the content its    *)
(* follow-up fetched, or None when the wait for it timed out.                *)

RECURSIVE RecordsOfRows(_, _, _, _)
\* extracted_data after the loop over the rows from position r on
RecordsOfRows(cat, rows, map, r) ==
    IF r > Len(rows) THEN << >>
    ELSE IF Len(rows[r]) > 0 /\ HasData(cat, rows[r], map)
         THEN << RowData(cat, rows[r], map) >> \o RecordsOfRows(cat, rows, map, r + 1)
         ELSE RecordsOfRows(cat, rows, map, r + 1)

RECURSIVE RequestsOfRows(_, _, _, _)
\* dialog_requests after the loop over the rows from position r on
RequestsOfRows(cat, rows, map, r) ==
    IF r > Len(rows) THEN << >>
    ELSE (IF Len(rows[r]) > 0 THEN RowRequests(cat, rows[r], map, r - 1) ELSE << >>)
         \o RequestsOfRows(cat, rows, map, r + 1)

\* the result map batch_fetch_full_content returns
BatchResults(reqs, answers) ==
    { [ row_index |-> reqs[k].row_index, field |-> reqs[k].field,
        content |-> answers[k].text ] :
      k \in { j \in 1..Len(reqs) : Truthy(answers[j]) } }

\* the requests a producer run enqueues for a document
RequestsOfListing(cat, doc) ==
    IF \/ doc.status # 200
       \/ ~HasParentTable(cat, doc)
       \/ TaggedRows(cat, doc.rows) = {}
    THEN << >>
    ELSE LET h == FirstTaggedRow(cat, doc.rows)
         IN  RequestsOfRows(cat, SubSeq(doc.rows, h + 1, Len(doc.rows)),
                            TempMap(cat, doc.rows[h]), 1)

\* what extract_mygap_<category>_data returns for a document
RunProducer(cat, doc, answers) ==
    IF cat = "tanaman" /\ doc.status \in STATUS_FORCELIST THEN Raised
    ELSE IF \/ doc.status # 200
            \/ ~HasParentTable(cat, doc)
            \/ TaggedRows(cat, doc.rows) = {}
         THEN ReturnNone
         ELSE LET h == FirstTaggedRow(cat, doc.rows)
                  map == TempMap(cat, doc.rows[h])
                  rows == SubSeq(doc.rows, h + 1, Len(doc.rows))
                  data == RecordsOfRows(cat, rows, map, 1)
                  reqs == RequestsOfRows(cat, rows, map, 1)
              IN  ReturnList(Integrate(data, BatchResults(reqs, answers)))

\* the answers of the batch of the run in progress
RunAnswers ==
    [ k \in 1..Len(futures) |->
        IF futures[k].timed_out THEN None ELSE futures[k].value.content ]

\* the step-by-step run returns what the one-step run returns
StepwiseRunAgrees ==
    pc = "returned" => ret = RunProducer(category, listing, RunAnswers)

-----------------------------------------------------------------------------
(* The data endpoints GET /mygap/data/am and GET /mygap/data/tanaman.  The   *)
(* clock counts hours.  A handler is followed statement by statement; with   *)
(* serial = TRUE one event loop runs a handler to its end before the next    *)
(* begins, with serial = FALSE several server processes share the working    *)
(* directory and their handlers interleave.                                  *)

Categories == { "am", "tanaman" }

\* timedelta(days=1), in hours
OneDay == 24

MaxClock == 25
MaxCalls == 3

\* the hours that pass between two observations of the clock
ClockSteps == { 23, 24, 25 }

\* the answers the site may give to one producer run started by a handler
GateListings ==
    { [ status |-> 404, loose |-> "none", rows |-> << >> ],
      [ status |-> 503, loose |-> "none", rows |-> << >> ],
      [ status |-> 200, loose |-> "none", rows |-> << HeaderFull >> ],
      [ status |-> 200, loose |-> "none",
        rows |-> << HeaderFull,
                    << Cell("td", "", << RowWords[1] >>, ""),
                       Cell("td", "", << "padi" >>, "") >> >> ] }

\* what the batch may keep for each request of a run
AnswersFor(reqs) == [ 1..Len(reqs) -> { None, Some(<< "full" >>) } ]

\* the values a producer run may return for a category
ProducerReturnsOf(cat) ==
    UNION { { RunProducer(cat, doc, a) : a \in AnswersFor(RequestsOfListing(cat, doc)) } :
            doc \in GateListings }

\* a JSON document that is not one save_data wrote
OtherJson(form, data) ==
    [ form |-> form, total_records |-> 0, fields |-> << >>, data |-> data ]

\* the record lists found in artifacts that exist before the first call
SeedRecords(cat) ==
    { r.data : r \in { q \in ProducerReturnsOf(cat) : q.kind = "list" } }

\* the artifacts of a category the working directory may hold before the
\* first call
SeedFilesOf(cat) ==
    { [ category |-> cat, stamp |-> 0, mtime |-> 0, content |-> WrappedJson(cat, d) ] :
        d \in SeedRecords(cat) \ { << >> } }
    \cup
    { [ category |-> cat, stamp |-> 0, mtime |-> 0, content |-> OtherJson("bare", d) ] :
        d \in SeedRecords(cat) }
    \cup
    { [ category |-> cat, stamp |-> 0, mtime |-> 0, content |-> OtherJson(form, << >>) ] :
        form \in { "corrupt", "object", "zero", "number", "null" } }

SeedFiles == UNION { SeedFilesOf(cat) : cat \in Categories }

\* the artifacts from which runs with interleaved handlers start
OverlapSeedFiles ==
    { f \in SeedFilesOf("tanaman") : f.content.form \in { "wrapped", "corrupt" } }

\* glob.glob("mygap_data_<category>_*.json")
JsonFiles(fs, cat) == { f \in fs : f.category = cat }

\* the files max(json_files, key=os.path.getmtime) may return
LatestFiles(json_files) ==
    { f \in json_files : \A g \in json_files : g.mtime <= f.mtime }

\* file_age < timedelta(days=1), accepting an age of exactly one day
IsFreshInclusive(file_age) == file_age <= OneDay

\* file_age < timedelta(days=1)
IsFresh(file_age) == file_age < OneDay

\* a reader whose inner try lets the loading error through
ReadJsonUncaught(content) ==
    CASE content.form = "wrapped" -> RawList(content.data)
      [] content.form = "bare"    -> RawList(content.data)
      [] content.form \in { "number", "null" } -> RawNone
      [] OTHER                    -> RawOther(content.form)

\* raw_data after the try block that loads a cache file
ReadJson(content) ==
    CASE content.form = "wrapped" -> RawList(content.data)
      [] content.form = "bare"    -> RawList(content.data)
      [] content.form = "object"  -> RawOther("object")
      [] content.form = "zero"    -> RawOther("zero")
      [] OTHER                    -> RawNone

\* the fields of MyGAPRecord
RecordFields == Range(AM_DATA_FIELDS)

\* MyGAPRecord(**item)
MyGAPRecord(item) ==
    [ f \in RecordFields |-> IF f \in DOMAIN item THEN Some(item[f]) ELSE None ]

MyGAPRecords(data) == [ i \in 1..Len(data) |-> MyGAPRecord(data[i]) ]

\* MyGAPResponse(success=True, ...)
Success(data_source, data) ==
    [ status |-> 200, source |-> data_source, total_records |-> Len(data),
      data |-> MyGAPRecords(data) ]

\* HTTPException(status_code=500, ...)
ServerError == [ status |-> 500, source |-> "", total_records |-> 0, data |-> << >> ]

\* no response is waiting to be sent, and under one event loop the handlers
\* of the other callers are not in the middle of a call
MayStep(c) ==
    /\ \A d \in Callers : handlers[d].pc # "done"
    /\ serial => \A d \in Callers \ { c } : handlers[d].pc = "idle"

ProducerIdle ==
    UNCHANGED << category, save_to_file, listing, pc, header_row_index,
                 field_to_col_map, row_cursor, extracted_data, dialog_requests,
                 futures, collect_cursor, results, fetch_log, ret, overtaken,
                 run_vars, fn_vars >>

GateInit ==
    /\ category = ""
    /\ save_to_file = FALSE
    /\ listing = [ status |-> 0, loose |-> "none", rows |-> << >> ]
    /\ pc = "off"
    /\ header_row_index = -1
    /\ field_to_col_map = << >>
    /\ row_cursor = 0
    /\ extracted_data = << >>
    /\ dialog_requests = << >>
    /\ futures = << >>
    /\ collect_cursor = 0
    /\ results = {}
    /\ fetch_log = << >>
    /\ ret = NoReturn
    /\ overtaken = FALSE
    /\ \/ /\ serial = TRUE
          /\ files \in { {} } \cup { { f } : f \in SeedFiles }
       \/ /\ serial = FALSE
          /\ files \in { {} } \cup { { f } : f \in OverlapSeedFiles }
    /\ now = 0
    /\ handlers = [ c \in Callers |-> IdleHandler ]
    /\ calls = 0
    /\ fetch_history = {}
    /\ site = FreeSite
    /\ SingleRun
    /\ FnIdle

\* a request for a category's data arrives
BeginCall(c, cat) ==
    /\ handlers[c].pc = "idle"
    /\ MayStep(c)
    /\ calls < MaxCalls
    /\ calls' = calls + 1
    /\ handlers' = [ handlers EXCEPT ![c] =
                       [ IdleHandler EXCEPT !.pc = "glob", !.endpoint = "data",
                                            !.category = cat ] ]
    /\ UNCHANGED << files, now, serial, fetch_history >>
    /\ ProducerIdle

\* a request to GET /mygap/download/<category> or GET /mygap/stats arrives:
\* the handler calls the producer at once, with save_to_file=False
BeginExtract(c, endpoint, cat) ==
    /\ handlers[c].pc = "idle"
    /\ MayStep(c)
    /\ handlers' = [ handlers EXCEPT ![c] =
                       [ IdleHandler EXCEPT !.pc = "fetching", !.endpoint = endpoint,
                                            !.category = cat, !.checked_at = now,
                                            !.produced = "save_false",
                                            !.data_source = "fresh" ] ]
    /\ UNCHANGED << files, now, calls, serial, fetch_history >>
    /\ ProducerIdle

\* a gate that reads the newest artifact whatever its age
FindLatestFileAnyAge(c) ==
    /\ handlers[c].pc = "glob"
    /\ MayStep(c)
    /\ LET json_files == JsonFiles(files, handlers[c].category)
       IN  IF json_files = {}
           THEN handlers' = [ handlers EXCEPT ![c].pc = "fetch",
                                              ![c].checked_at = now ]
           ELSE \E latest_file \in LatestFiles(json_files) :
                  LET file_age == now - latest_file.mtime
                  IN  handlers' = [ handlers EXCEPT
                          ![c].pc = "read",
                          ![c].json_files = json_files,
                          ![c].checked_at = now,
                          ![c].has_file = TRUE,
                          ![c].latest_file = latest_file,
                          ![c].file_age = file_age ]
    /\ UNCHANGED << files, now, calls, serial, fetch_history >>
    /\ ProducerIdle

\* json_files, latest_file, file_age and the test of the age
FindLatestFile(c) ==
    /\ handlers[c].pc = "glob"
    /\ MayStep(c)
    /\ LET json_files == JsonFiles(files, handlers[c].category)
       IN  IF json_files = {}
           THEN handlers' = [ handlers EXCEPT ![c].pc = "fetch",
                                              ![c].checked_at = now ]
           ELSE \E latest_file \in LatestFiles(json_files) :
                  LET file_age == now - latest_file.mtime
                  IN  handlers' = [ handlers EXCEPT
                          ![c].pc = IF IsFresh(file_age) THEN "read" ELSE "fetch",
                          ![c].json_files = json_files,
                          ![c].checked_at = now,
                          ![c].has_file = TRUE,
                          ![c].latest_file = latest_file,
                          ![c].file_age = file_age ]
    /\ UNCHANGED << files, now, calls, serial, fetch_history >>
    /\ ProducerIdle

\* open(latest_file) and json.load inside the inner try
ReadCacheFile(c) ==
    /\ handlers[c].pc = "read"
    /\ MayStep(c)
    /\ LET h == handlers[c]
           named == { f \in files : /\ f.category = h.latest_file.category
                                    /\ f.stamp = h.latest_file.stamp }
       IN  \E f \in named :
             LET raw_data == ReadJson(f.content)
             IN  handlers' = [ handlers EXCEPT
                     ![c].file_read = f,
                     ![c].raw_data = raw_data,
                     ![c].pc = IF raw_data = RawNone THEN "fetch" ELSE "convert" ]
    /\ UNCHANGED << files, now, calls, serial, fetch_history >>
    /\ ProducerIdle

\* a gate that lets one producer run of a category go at a time
CallProducerSingleFlight(c) ==
    /\ handlers[c].pc = "fetch"
    /\ MayStep(c)
    /\ \A d \in Callers \ { c } :
          ~(handlers[d].pc = "fetching" /\ handlers[d].category = handlers[c].category)
    /\ handlers' = [ handlers EXCEPT ![c].pc = "fetching",
                                     ![c].produced = "save_true",
                                     ![c].data_source = "fresh" ]
    /\ UNCHANGED << files, now, calls, serial, fetch_history >>
    /\ ProducerIdle

\* raw_data is None: extract_mygap_<category>_data(save_to_file=True) is called
CallProducer(c) ==
    /\ handlers[c].pc = "fetch"
    /\ MayStep(c)
    /\ handlers' = [ handlers EXCEPT ![c].pc = "fetching",
                                     ![c].produced = "save_true",
                                     ![c].data_source = "fresh" ]
    /\ UNCHANGED << files, now, calls, serial, fetch_history >>
    /\ ProducerIdle

\* the values extract_mygap_tbm_data(save_to_file=False) may return to the
\* stats handler: the failure value, an exception, or a list of records
TbmReturns ==
    { ReturnNone, Raised, ReturnList(<< >>),
      ReturnList(<< [ f \in Range(TANAMAN_DATA_FIELDS) |->
                        IF f = "no_pensijilan" THEN << RowWords[1] >> ELSE << >> ] >>) }

\* the values the producer may return to a handler
ReturnsTo(h) ==
    IF h.endpoint = "stats" THEN TbmReturns ELSE ProducerReturnsOf(h.category)

\* a handler that takes every empty result for a failure: 'if not raw_data'
ProducerFailedOnEmpty(r) == r = ReturnNone \/ r.data = << >>

\* 'if raw_data is None' after the producer call
ProducerFailed(r) == r = ReturnNone

\* the producer run ends: it has saved what it extracted if it was asked to,
\* and returns; None makes the handler raise HTTPException(500), an exception
\* of the producer reaches the handler's 'except Exception'
ProducerReturns(c) ==
    /\ handlers[c].pc = "fetching"
    /\ MayStep(c)
    /\ \E r \in ReturnsTo(handlers[c]) :
         LET failed == r.kind = "raise" \/ ProducerFailed(r)
             data_call == handlers[c].endpoint = "data"
         IN  /\ files' = IF handlers[c].produced = "save_true" /\ r.kind = "list"
                         THEN SaveData(files, handlers[c].category, r.data, now)
                         ELSE files
             /\ handlers' = [ handlers EXCEPT
                     ![c].returned = r,
                     ![c].raw_data = IF r.kind = "list" THEN RawList(r.data) ELSE RawNone,
                     ![c].pc = IF failed THEN "done" ELSE "convert",
                     ![c].response = IF failed THEN ServerError ELSE NoResponse ]
             /\ fetch_history' =
                   IF data_call
                   THEN fetch_history \cup
                          { [ category |-> handlers[c].category, at |-> now,
                              total_records |-> IF r.kind = "list" THEN Len(r.data)
                                                ELSE -1 ] }
                   ELSE fetch_history
    /\ UNCHANGED << now, calls, serial >>
    /\ ProducerIdle

\* JSONResponse of a download handler
DownloadResponse(data) ==
    [ status |-> 200, source |-> "download", total_records |-> Len(data), data |-> data ]

\* StatsResponse(success=True, ...)
StatsResponse(data) ==
    [ status |-> 200, source |-> "stats", total_records |-> Len(data), data |-> << >> ]

\* the rest of a handler once raw_data is set: the response of its endpoint.
\* In a data handler, iterating a number or building a record from an
\* object's key raises, and the outer handler answers 500
Respond(c) ==
    /\ handlers[c].pc = "convert"
    /\ MayStep(c)
    /\ LET h == handlers[c]
       IN  handlers' = [ handlers EXCEPT
             ![c].pc = "done",
             ![c].response =
                 IF h.raw_data.kind # "list" THEN ServerError
                 ELSE CASE h.endpoint = "data" -> Success(h.data_source, h.raw_data.data)
                        [] h.endpoint = "download" -> DownloadResponse(h.raw_data.data)
                        [] OTHER -> StatsResponse(h.raw_data.data) ]
    /\ UNCHANGED << files, now, calls, serial, fetch_history >>
    /\ ProducerIdle

\* the response leaves and the handler's variables are gone
SendResponse(c) ==
    /\ handlers[c].pc = "done"
    /\ handlers' = [ handlers EXCEPT ![c] = IdleHandler ]
    /\ UNCHANGED << files, now, calls, serial, fetch_history >>
    /\ ProducerIdle

\* time passes between calls; a call lasts less than the clock's unit
Tick(d) ==
    /\ \A c \in Callers : handlers[c].pc = "idle"
    /\ now + d <= MaxClock
    /\ now' = now + d
    /\ UNCHANGED << files, handlers, calls, serial, fetch_history >>
    /\ ProducerIdle

GateNext ==
    \/ \E c \in Callers, cat \in Categories : BeginCall(c, cat)
    \/ \E c \in Callers : FindLatestFile(c)
    \/ \E c \in Callers : ReadCacheFile(c)
    \/ \E c \in Callers : CallProducer(c)
    \/ \E c \in Callers : ProducerReturns(c)
    \/ \E c \in Callers : Respond(c)
    \/ \E c \in Callers : SendResponse(c)
    \/ \E d \in ClockSteps : Tick(d)

GateSpec == GateInit /\ [][GateNext]_vars

-----------------------------------------------------------------------------
(* All the handlers that call a producer: the data, download and stats      *)
(* endpoints under one event loop, within one hour.  The download and stats *)
(* handlers read no artifact and share no state with the other handlers.    *)

ServeInit == GateInit /\ serial

ServeNext ==
    \/ \E c \in Callers, cat \in Categories : BeginCall(c, cat)
    \/ \E c \in Callers, cat \in Categories : BeginExtract(c, "download", cat)
    \/ \E c \in Callers : BeginExtract(c, "stats", "tbm")
    \/ \E c \in Callers : FindLatestFile(c)
    \/ \E c \in Callers : ReadCacheFile(c)
    \/ \E c \in Callers : CallProducer(c)
    \/ \E c \in Callers : ProducerReturns(c)
    \/ \E c \in Callers : Respond(c)
    \/ \E c \in Callers : SendResponse(c)

ServeSpec == ServeInit /\ [][ServeNext]_vars

-----------------------------------------------------------------------------
(* Vocabulary of the properties *)

\* the run got past column resolution and did not fail
Extracting ==
    \/ pc \in { "rows", "batch", "integrate", "finish" }
    \/ pc = "returned" /\ ret.kind = "list"

\* the r-th row after the header row
DataRow(r) == RowsAfterHeader[r]

\* some schema field read from the cells of a row is not empty
NonEmptyCells(cells) ==
    \E f \in FieldSet(category) :
        FieldValue(category, cells, field_to_col_map, f) # << >>

\* some schema field read from the r-th row after the header is not empty
NonEmptyRow(r) == NonEmptyCells(DataRow(r))

\* the rows with a non-empty field among the first n rows after the header,
\* in document order
RetainedRows(n) == SelectSeq(SubSeq(RowsAfterHeader, 1, n), NonEmptyCells)

\* number of rows with a non-empty field among the first r rows after the header
PosOf(r) == Len(RetainedRows(r))

\* the row after the header that the i-th record was built from
SourceRow(i) == RetainedRows(Len(RowsAfterHeader))[i]

\* the follow-up of request k yielded no content
FollowUpFailed(k) == futures[k].timed_out \/ ~futures[k].value.content.some

\* the follow-up of request k yielded content that the batch kept
FollowUpKept(k) == ~futures[k].timed_out /\ Truthy(futures[k].value.content)

-----------------------------------------------------------------------------
(* C1: every returned record has exactly the schema's fields as keys, and a *)
(* field that is not in the column map, or whose column lies beyond the     *)
(* last cell of the record's row, holds the empty string.                   *)
C1_RecordsCarryEverySchemaField ==
    ret.kind = "list" =>
        \A i \in 1..Len(ret.data) :
            /\ DOMAIN ret.data[i] = FieldSet(category)
            /\ \A f \in FieldSet(category) :
                  ( \/ f \notin DOMAIN field_to_col_map
                    \/ field_to_col_map[f] >= Len(SourceRow(i)) )
                  => ret.data[i][f] = << >>

(* C2: the content fetched for a deferred request is written only into the  *)
(* record built from the row that held the truncated cell: the row index    *)
(* recorded at enqueue time is the position of that record in the final     *)
(* list.                                                                     *)
C2_ContentLandsOnOwningRow ==
    ret.kind = "list" =>
        \A k \in 1..Len(dialog_requests) :
            /\ dialog_requests[k].row_index + 1 = PosOf(dialog_requests[k].row_index + 1)
            /\ \A i \in 1..Len(ret.data) :
                  ( /\ Truthy(futures[k].value.content)
                    /\ ret.data[i][dialog_requests[k].field]
                          = futures[k].value.content.text )
                  => i = PosOf(dialog_requests[k].row_index + 1)

(* C3: a non-2xx listing answer, or a document without a th tagged with the *)
(* schema's first field, makes the producer return None, with no follow-up  *)
(* request issued and nothing persisted.                                    *)
C3_ListingFailureReturnsNone ==
    ( /\ pc = "returned"
      /\ \/ listing.status \notin 200..299
         \/ ~HasTargetHeader(category, listing) )
    => /\ ret = ReturnNone
       /\ fetch_log = << >>
       /\ files = {}

\* no cell of any row carries a data-field of the schema
NoSchemaTag ==
    \A i \in 1..Len(listing.rows) : \A j \in 1..Len(listing.rows[i]) :
        listing.rows[i][j].field \notin FieldSet(category)

(* C4: a document fetched with status 200 in which no row has a cell tagged *)
(* with a schema field makes the producer return None, never a list; a list *)
(* (also the empty one) is returned only when a header row was found.       *)
C4_SchemaNotFoundIsFailure ==
    pc = "returned" =>
        /\ (listing.status = 200 /\ NoSchemaTag) => ret = ReturnNone
        /\ ret.kind = "list" =>
              /\ ~NoSchemaTag
              /\ header_row_index >= 0
              /\ \E j \in 1..Len(listing.rows[header_row_index + 1]) :
                    listing.rows[header_row_index + 1][j].field \in FieldSet(category)

C4_Witness ==
    /\ pc = "returned"
    /\ listing.status = 200
    /\ HasParentTable(category, listing)
    /\ listing.rows # << >>
    /\ NoSchemaTag
    /\ ret = ReturnNone

(* C5: a row after the header contributes a record iff at least one schema   *)
(* field read from it is not empty: the records are those of the non-empty   *)
(* rows, one each, and the returned list has as many records as there are    *)
(* non-empty rows.                                                           *)
C5_DiscardRule ==
    Extracting =>
        /\ Len(extracted_data) = PosOf(row_cursor)
        /\ pc = "rows" =>
              \A r \in 1..row_cursor :
                  NonEmptyRow(r) =>
                      extracted_data[PosOf(r)]
                          = RowData(category, DataRow(r), field_to_col_map)
        /\ ret.kind = "list" => Len(ret.data) = PosOf(Len(RowsAfterHeader))

\* the r-th row after the header has exactly one non-empty schema field
OneFieldRow(r) ==
    Cardinality({ f \in FieldSet(category) :
        FieldValue(category, DataRow(r), field_to_col_map, f) # << >> }) = 1

C5_Witness ==
    /\ pc = "returned"
    /\ ret.kind = "list"
    /\ Len(ret.data) = 1
    /\ \E r \in 1..Len(RowsAfterHeader) : Len(DataRow(r)) > 0 /\ ~NonEmptyRow(r)
    /\ \E r \in 1..Len(RowsAfterHeader) : OneFieldRow(r)

\* the records extracted from the table before any follow-up is applied
TableRecords ==
    LET kept == RetainedRows(Len(RowsAfterHeader))
    IN  [ i \in 1..Len(kept) |-> RowData(category, kept[i], field_to_col_map) ]

(* C6: a follow-up that fails (no content, or timed out) is a soft failure:  *)
(* the field of the truncated cell keeps the value row extraction stored     *)
(* for it, with every follow-up failed the records are those of row          *)
(* extraction, and the run still returns its list.                           *)
C6_FailedFollowUpKeepsPlaceholder ==
    (pc = "returned" /\ dialog_requests # << >>) =>
        /\ ret.kind = "list"
        /\ (\A k \in 1..Len(dialog_requests) : FollowUpFailed(k))
              => ret.data = TableRecords
        /\ \A k \in 1..Len(dialog_requests) :
              FollowUpFailed(k) =>
                  LET r == dialog_requests[k].row_index + 1
                      f == dialog_requests[k].field
                  IN  ret.data[PosOf(r)][f]
                        = FieldValue(category, DataRow(r), field_to_col_map, f)

(* C7: for a cell whose text holds the marker and that carries a follow-up   *)
(* link, row extraction stores the cleaned prefix or the empty string, so    *)
(* that no record field holds the marker text of such a cell.                *)
C7_LinkedMarkerCellStoredClean ==
    pc = "rows" =>
        \A r \in 1..row_cursor : \A f \in FieldSet(category) :
            IsDeferred(category, DataRow(r), field_to_col_map, f) =>
                /\ NonEmptyRow(r)
                /\ ~HasMoreMarker(extracted_data[PosOf(r)][f])
                /\ extracted_data[PosOf(r)][f]
                      \in { << >>,
                            CleanMoreSuffix(DataRow(r)[field_to_col_map[f] + 1].text) }

\* the first-field values of a record list, in order
FirstFields(data) == [ i \in 1..Len(data) |-> data[i][DATA_FIELDS(category)[1]] ]

\* the first-field values of the non-empty rows among the first n, in document order
FirstFieldsOfRows(n) ==
    LET kept == RetainedRows(n)
    IN  [ i \in 1..Len(kept) |->
            FieldValue(category, kept[i], field_to_col_map, DATA_FIELDS(category)[1]) ]

(* C8: the records are the retained rows in document order, during row       *)
(* extraction, through truncation resolution and in the returned list.       *)
C8_RowOrderPreserved ==
    Extracting =>
        /\ FirstFields(extracted_data) = FirstFieldsOfRows(row_cursor)
        /\ ret.kind = "list" => FirstFields(ret.data) = FirstFieldsOfRows(Len(RowsAfterHeader))

C8_Witness ==
    /\ pc = "returned"
    /\ ret.kind = "list"
    /\ Len(ret.data) = 2
    /\ ret.data[1][DATA_FIELDS(category)[1]] # ret.data[2][DATA_FIELDS(category)[1]]
    /\ Len(RowsAfterHeader) = 3
    /\ ~NonEmptyRow(2)
    /\ \E k \in 1..Len(dialog_requests) : FollowUpKept(k)

\* the contents get_full_text_from_dialog may yield for each url
ContentsOf ==
    [ u \in Range(UrlNames) |-> { GetFullTextFromDialog(reply) : reply \in Replies(u) } ]

\* the result map the requests and their answers determine
ExpectedResults ==
    { [ row_index |-> dialog_requests[k].row_index,
        field |-> dialog_requests[k].field,
        content |-> futures[k].value.content.text ] :
      k \in { j \in 1..Len(dialog_requests) : FollowUpKept(j) } }

(* C9: whatever the order in which the answers arrive, each (row index,      *)
(* field) slot of the result map holds the content fetched for its own       *)
(* request, and the final records are those the requests and their answers   *)
(* determine.                                                                *)
C9_ResultsIndependentOfArrival ==
    /\ pc \in { "batch", "integrate", "finish", "returned" } =>
          \A k \in 1..Len(futures) :
              futures[k].state = "done" =>
                  /\ futures[k].value.row_index = dialog_requests[k].row_index
                  /\ futures[k].value.field = dialog_requests[k].field
                  /\ futures[k].value.content \in ContentsOf[dialog_requests[k].url]
    /\ (pc \in { "integrate", "finish" } \/ (pc = "returned" /\ futures # << >>)) =>
          results = ExpectedResults
    /\ (pc = "returned" /\ futures # << >>) =>
          /\ ret.kind = "list"
          /\ ret.data = Integrate(TableRecords, ExpectedResults)

C9_Witness ==
    /\ pc = "returned"
    /\ overtaken
    /\ Len(dialog_requests) = 2
    /\ FollowUpKept(1) /\ FollowUpKept(2)
    /\ futures[1].value.content # futures[2].value.content
    /\ \A k \in 1..2 :
          ret.data[dialog_requests[k].row_index + 1][dialog_requests[k].field]
              = futures[k].value.content.text


\* the records a response carries are those of a record list
ServesRecordsOf(response, data) ==
    /\ response.total_records = Len(data)
    /\ Len(response.data) = Len(data)
    /\ \A i \in 1..Len(data) : \A f \in DOMAIN data[i] :
          response.data[i][f] = Some(data[i][f])

\* a JSON document that holds a record list, wrapped or bare
HoldsRecords(content) == content.form \in { "wrapped", "bare" }

\* the newest artifacts among those a handler found for its category
NewestSeen(h) ==
    { f \in h.json_files : \A g \in h.json_files : g.mtime <= f.mtime }

(* C10: when a data endpoint answers, (a) if the newest artifact of its      *)
(* category was less than one day old when the handler looked and holds a    *)
(* record list, the producer was not called and the answer is a success      *)
(* carrying the records read from that file; (b) if the handler found no     *)
(* artifact of its category, or the newest was one day old or older, the     *)
(* producer was called with save_to_file=True.                               *)
C10_FreshnessGate ==
    \A c \in Callers :
      LET h == handlers[c]
      IN  h.pc = "done" =>
            /\ \A f \in NewestSeen(h) :
                 (h.checked_at - f.mtime < OneDay /\ HoldsRecords(f.content)) =>
                    /\ h.produced = "no"
                    /\ h.file_read.category = h.category
                    /\ h.file_read.stamp = f.stamp
                    /\ h.response.status = 200
                    /\ h.response.source = "cache"
                    /\ ServesRecordsOf(h.response, h.file_read.content.data)
            /\ (\/ h.json_files = {}
                \/ \E f \in NewestSeen(h) : h.checked_at - f.mtime >= OneDay) =>
                    h.produced = "save_true"

\* a call answered from an artifact 23 hours old without a producer run,
\* while an artifact of the other category exists
C10_Witness ==
    \E c \in Callers :
      LET h == handlers[c]
      IN  /\ h.pc = "done"
          /\ h.category = "tanaman"
          /\ h.file_age = 23
          /\ h.produced = "no"
          /\ h.response.status = 200
          /\ h.response.total_records > 0
          /\ \E g \in files : g.category = "am"

(* C11: a call that finds its newest artifact less than one day old but      *)
(* cannot load it (the file is corrupt or unreadable) calls the producer     *)
(* with save_to_file=True, and it is answered with a success carrying the    *)
(* producer's records whenever the producer returns a list: the bad          *)
(* artifact alone never makes the answer an error.                           *)
C11_CorruptCacheFallsBack ==
    \A c \in Callers :
      LET h == handlers[c]
      IN  ( /\ h.pc = "done"
            /\ h.has_file
            /\ IsFresh(h.checked_at - h.latest_file.mtime)
            /\ h.file_read.content.form = "corrupt" )
          => /\ h.produced = "save_true"
             /\ h.returned.kind # "running"
             /\ h.returned.kind = "list" =>
                   /\ h.response.status = 200
                   /\ h.response.source = "fresh"
                   /\ ServesRecordsOf(h.response, h.returned.data)
             /\ h.response.status = 500 => h.returned.kind \in { "none", "raise" }

\* a call that met a corrupt artifact 23 hours old and is answered with the
\* records of a fresh fetch
C11_Witness ==
    \E c \in Callers :
      LET h == handlers[c]
      IN  /\ h.pc = "done"
          /\ h.file_age = 23
          /\ h.file_read.content.form = "corrupt"
          /\ h.produced = "save_true"
          /\ h.response.status = 200
          /\ h.response.source = "fresh"
          /\ h.response.total_records > 0

\* every producer run so far returned a list: each listing fetch succeeded
EveryFetchSucceeded == \A e \in fetch_history : e.total_records >= 0

\* a producer run of the category returned a list less than one day ago
FetchedInWindow(cat) ==
    \E e \in fetch_history :
        /\ e.category = cat
        /\ e.total_records >= 0
        /\ now - e.at < OneDay

(* C12: with calls served one after the other and every listing fetch        *)
(* succeeding, a call made less than one day after a producer run of its     *)
(* category returned a list does not call the producer again: it is served   *)
(* from the artifact that run persisted.                                     *)
C12_OneFetchPerWindow ==
    (serial /\ EveryFetchSucceeded) =>
        \A c \in Callers :
            handlers[c].pc = "fetching" => ~FetchedInWindow(handlers[c].category)

\* a producer run of the category returned a non-empty list less than one
\* day ago
FetchedRecordsInWindow(cat) ==
    \E e \in fetch_history :
        /\ e.category = cat
        /\ e.total_records > 0
        /\ now - e.at < OneDay

\* the same for producer runs that returned at least one record, whatever
\* the outcome of the other runs
NonEmptyFetchOncePerWindow ==
    serial =>
        \A c \in Callers :
            handlers[c].pc = "fetching" => ~FetchedRecordsInWindow(handlers[c].category)

(* C13: nothing synchronizes the gate: with handlers that overlap, a handler *)
(* that found the cache of its category stale, absent or unloadable can      *)
(* call the producer whatever the other handlers are doing, also while       *)
(* another handler runs the producer for the same category.                  *)
C13_GateNotSynchronized ==
    \A c \in Callers :
        ( /\ ~serial
          /\ handlers[c].pc = "fetch"
          /\ \A d \in Callers : handlers[d].pc # "done" )
        => ENABLED CallProducer(c)

\* two overlapping calls of one category that both found no fresh artifact
\* at the same hour and both are in the producer
C13_Witness ==
    /\ ~serial
    /\ \A c \in Callers :
          /\ handlers[c].pc = "fetching"
          /\ handlers[c].category = "tanaman"
          /\ handlers[c].produced = "save_true"
          /\ handlers[c].checked_at = now
          /\ ~handlers[c].has_file \/ ~IsFresh(handlers[c].file_age)

(* C14: a data, download or stats handler to which the producer returned     *)
(* None answers 500, never a success; a handler to which the producer        *)
(* returned a list, also the empty one, answers 200 with as many records as  *)
(* the list holds.                                                           *)
C14_NoneIsTheOnlyFailure ==
    \A c \in Callers :
      LET h == handlers[c]
      IN  h.pc = "done" =>
            /\ h.returned = ReturnNone => h.response.status = 500
            /\ h.returned.kind = "list" =>
                  /\ h.response.status = 200
                  /\ h.response.total_records = Len(h.returned.data)

\* a download handler that got None from its producer and answered 500
C14_Witness ==
    \E c \in Callers :
      LET h == handlers[c]
      IN  /\ h.pc = "done"
          /\ h.endpoint = "download"
          /\ h.produced = "save_false"
          /\ h.returned = ReturnNone
          /\ h.response.status = 500

-----------------------------------------------------------------------------
(* Two producer runs in one process against the same site *)

\* what the site does with a follow-up request: its answer, and whether the
\* answer comes after the caller stopped waiting
SiteOutcomes(url) ==
    { [ reply |-> r, late |-> FALSE ] :
        r \in { Reply(FALSE, 200, TRUE, TRUE, TRUE, << url, "<br>", "B" >>, << >>),
                Reply(FALSE, 200, TRUE, TRUE, TRUE, << >>, << >>),
                Reply(FALSE, 404, FALSE, FALSE, FALSE, << >>, << "Not", " ", "Found" >>) } }
    \cup { [ reply |-> Reply(FALSE, 200, TRUE, TRUE, TRUE, << url, "<br>", "B" >>, << >>),
             late |-> TRUE ] }

\* the follow-up references of a document
UrlsOf(doc) ==
    { RequestsOfListing("tanaman", doc)[k].url :
        k \in 1..Len(RequestsOfListing("tanaman", doc)) }

\* a site that answers every reference of the document in one fixed way
FixedSites(doc) ==
    { [ fixed |-> TRUE, outcome |-> o ] :
        o \in { f \in [ UrlsOf(doc) -> UNION { SiteOutcomes(u) : u \in UrlsOf(doc) } ] :
                  \A u \in UrlsOf(doc) : f[u] \in SiteOutcomes(u) } }

\* most rows of a document fetched twice
MaxRerunRows == 3

RerunListings == { doc \in Listings : Len(doc.rows) <= MaxRerunRows }

RerunInit ==
    /\ category \in Categories
    /\ save_to_file \in BOOLEAN
    /\ listing \in RerunListings
    /\ pc = "start"
    /\ header_row_index = -1
    /\ field_to_col_map = << >>
    /\ row_cursor = 0
    /\ extracted_data = << >>
    /\ dialog_requests = << >>
    /\ futures = << >>
    /\ collect_cursor = 0
    /\ results = {}
    /\ fetch_log = << >>
    /\ ret = NoReturn
    /\ files = {}
    /\ overtaken = FALSE
    /\ now = 0
    /\ handlers = [ c \in Callers |-> IdleHandler ]
    /\ calls = 0
    /\ serial = TRUE
    /\ fetch_history = {}
    /\ site \in FixedSites(listing)
    /\ SingleRun
    /\ FnIdle

\* a second call that starts from what the first call left in its lists
CallAgainOnOldLists ==
    /\ pc = "returned"
    /\ run_no = 1
    /\ run_no' = 2
    /\ first_ret' = ret
    /\ pc' = "start"
    /\ ret' = NoReturn
    /\ header_row_index' = -1
    /\ field_to_col_map' = << >>
    /\ row_cursor' = 0
    /\ futures' = << >>
    /\ collect_cursor' = 0
    /\ UNCHANGED << extracted_data, dialog_requests, results >>
    /\ UNCHANGED << category, save_to_file, listing, fetch_log, files, overtaken,
                    now, handlers, calls, serial, fetch_history, site, fn_vars >>

\* the producer is called a second time: every name it uses is a local of
\* the call, bound anew; the module keeps nothing but the schema
CallAgain ==
    /\ pc = "returned"
    /\ run_no = 1
    /\ run_no' = 2
    /\ first_ret' = ret
    /\ pc' = "start"
    /\ ret' = NoReturn
    /\ header_row_index' = -1
    /\ field_to_col_map' = << >>
    /\ row_cursor' = 0
    /\ futures' = << >>
    /\ collect_cursor' = 0
    /\ extracted_data' = << >>
    /\ dialog_requests' = << >>
    /\ results' = {}
    /\ UNCHANGED << category, save_to_file, listing, fetch_log, files, overtaken,
                    now, handlers, calls, serial, fetch_history, site, fn_vars >>

RerunNext ==
    \/ FetchListing
    \/ LocateTable
    \/ ResolveColumns
    \/ ExtractRow
    \/ EndRows
    \/ \E k \in 1..Len(futures) : WorkerStart(k)
    \/ \E k \in 1..Len(futures) : WorkerFinish(k)
    \/ CollectResult
    \/ CollectTimeout
    \/ EndBatch
    \/ IntegrateResults
    \/ Finish
    \/ CallAgain

RerunSpec == RerunInit /\ [][RerunNext]_vars

-----------------------------------------------------------------------------
(* JSON artifacts: what json.dump writes and what json.load gives back *)

\* most records in a list handed to save_data
MaxRecords == 2

\* Python values: str, int, list, and dict as its items in insertion order
PyStr(t) == [ py |-> "str", v |-> t ]
PyInt(n) == [ py |-> "int", v |-> n ]
PyList(s) == [ py |-> "list", v |-> s ]
PyDict(items) == [ py |-> "dict", v |-> items ]

\* the text of a Python string between the quotes of a JSON string
RECURSIVE Escape(_)
Escape(t) ==
    IF t = << >> THEN << >>
    ELSE LET c == Head(t) IN
         ( CASE c = "\\" -> << "\\", "\\" >>
             [] c = "\"" -> << "\\", "\"" >>
             [] c = "\n" -> << "\\", "n" >>
             [] OTHER    -> << c >> ) \o Escape(Tail(t))

\* the Python string of the text between the quotes of a JSON string
RECURSIVE Unescape(_)
Unescape(t) ==
    IF t = << >> THEN << >>
    ELSE IF Head(t) = "\\" /\ Len(t) > 1
         THEN ( IF t[2] = "n" THEN << "\n" >> ELSE << t[2] >> )
              \o Unescape(Tail(Tail(t)))
         ELSE << Head(t) >> \o Unescape(Tail(t))

\* json.dump: the JSON text of a Python value, as its syntax tree (the keys
\* of the dicts written here are identifiers, which are written as they are)
\* (indentation is white space between tokens; ensure_ascii=False leaves
\* every other character as it is)
RECURSIVE JsonDump(_)
JsonDump(p) ==
    CASE p.py = "str"  -> [ j |-> "string", v |-> Escape(p.v) ]
      [] p.py = "int"  -> [ j |-> "number", v |-> p.v ]
      [] p.py = "list" -> [ j |-> "array", v |-> [ i \in 1..Len(p.v) |-> JsonDump(p.v[i]) ] ]
      [] p.py = "dict" -> [ j |-> "object",
                            v |-> [ i \in 1..Len(p.v) |->
                                      << p.v[i][1], JsonDump(p.v[i][2]) >> ] ]

HasKey(items, k) == \E i \in 1..Len(items) : items[i][1] = k

DictGet(items, k) == items[CHOOSE i \in 1..Len(items) : items[i][1] = k][2]

\* d[k] = v on a dict
DictSet(items, k, v) ==
    IF HasKey(items, k)
    THEN [ i \in 1..Len(items) |-> IF items[i][1] = k THEN << k, v >> ELSE items[i] ]
    ELSE Append(items, << k, v >>)

\* json.load: the Python value of a JSON text
RECURSIVE JsonLoad(_)
RECURSIVE LoadMembers(_, _)
LoadMembers(members, items) ==
    IF members = << >> THEN items
    ELSE LoadMembers(Tail(members),
                     DictSet(items, Head(members)[1], JsonLoad(Head(members)[2])))

JsonLoad(t) ==
    CASE t.j = "string" -> PyStr(Unescape(t.v))
      [] t.j = "number" -> PyInt(t.v)
      [] t.j = "array"  -> PyList([ i \in 1..Len(t.v) |-> JsonLoad(t.v[i]) ])
      [] t.j = "object" -> PyDict(LoadMembers(t.v, << >>))

\* a row record as the dict the row extractor built
PyOfRecord(cat, rec) ==
    PyDict([ i \in 1..Len(DATA_FIELDS(cat)) |->
               << DATA_FIELDS(cat)[i], PyStr(rec[DATA_FIELDS(cat)[i]]) >> ])

PyOfRecords(cat, data) == PyList([ i \in 1..Len(data) |-> PyOfRecord(cat, data[i]) ])

\* a dict of strings as a record of the model
RecordOfPy(p) ==
    [ k \in { p.v[i][1] : i \in 1..Len(p.v) } |-> DictGet(p.v, k).v ]

\* json_data of save_data (the two time stamps are left out)
JsonData(cat, data) ==
    PyDict(<< << "metadata",
                 PyDict(<< << "total_records", PyInt(Len(data)) >>,
                           << "fields", PyList([ i \in 1..Len(DATA_FIELDS(cat)) |->
                                                   PyStr(<< DATA_FIELDS(cat)[i] >>) ]) >> >>) >>,
              << "data", PyOfRecords(cat, data) >> >>)

\* a reader that takes the file's top-level value whatever it is
FileDataWhole(file_data) == file_data

\* raw_data of the gate once json.load gave file_data
FileData(file_data) ==
    IF file_data.py = "list" THEN file_data
    ELSE IF file_data.py = "dict" /\ HasKey(file_data.v, "data")
         THEN DictGet(file_data.v, "data")
         ELSE file_data

\* raw_data as the model's handlers hold it
RawOfPy(p) ==
    IF p.py = "list"
    THEN RawList([ i \in 1..Len(p.v) |-> RecordOfPy(p.v[i]) ])
    ELSE RawOther("object")

\* texts a field may hold: empty, a word, a line break, a backslash, a quote
JsonTexts == { << >>, << "padi" >>, << "a", "\n", "\\", "n" >>, << "\"", "é" >> }

SampleRecord(cat, a, b) ==
    [ f \in FieldSet(cat) |->
        IF f = DATA_FIELDS(cat)[1] THEN a ELSE IF f = "nama" THEN b ELSE << >> ]

SampleRecords(cat) == { SampleRecord(cat, a, b) : a \in JsonTexts, b \in JsonTexts }

RecordLists(cat) ==
    UNION { [ 1..n -> SampleRecords(cat) ] : n \in 0..MaxRecords }

\* a record list is about to be saved
RoundTripInit ==
    /\ category \in Categories
    /\ save_to_file = TRUE
    /\ listing = CHOOSE l \in GateListings : TRUE
    /\ pc = "returned"
    /\ header_row_index = -1
    /\ field_to_col_map = << >>
    /\ row_cursor = 0
    /\ extracted_data = << >>
    /\ dialog_requests = << >>
    /\ futures = << >>
    /\ collect_cursor = 0
    /\ results = << >>
    /\ fetch_log = << >>
    /\ ret = NoReturn
    /\ files = {}
    /\ overtaken = FALSE
    /\ now = 0
    /\ handlers = [ c \in Callers |-> IdleHandler ]
    /\ calls = 0
    /\ serial = TRUE
    /\ fetch_history = {}
    /\ site = FreeSite
    /\ SingleRun
    /\ fn_pc = "start"
    /\ fn_arg \in RecordLists(category)
    /\ fn_file = << >>
    /\ fn_out = << >>

FnOnly == UNCHANGED << category, save_to_file, listing, pc, header_row_index,
                       field_to_col_map, row_cursor, extracted_data, dialog_requests,
                       futures, collect_cursor, results, fetch_log, ret, files,
                       overtaken, now, handlers, calls, serial, fetch_history,
                       run_vars >>

\* save_data, the JSON branch
SaveJson ==
    /\ fn_pc = "start"
    /\ IF fn_arg = << >>
       THEN /\ fn_pc' = "nothing_saved"
            /\ fn_file' = fn_file
       ELSE /\ fn_pc' = "saved"
            /\ fn_file' = JsonDump(JsonData(category, fn_arg))
    /\ UNCHANGED << fn_arg, fn_out >>
    /\ FnOnly

\* the record list left in the directory in the metadata-wrapped form
DumpWrapped ==
    /\ fn_pc = "start"
    /\ fn_pc' = "saved_wrapped"
    /\ fn_file' = JsonDump(JsonData(category, fn_arg))
    /\ UNCHANGED << fn_arg, fn_out >>
    /\ FnOnly

\* the record list left in the directory as a bare JSON array
DumpBare ==
    /\ fn_pc = "start"
    /\ fn_pc' = "saved_bare"
    /\ fn_file' = JsonDump(PyOfRecords(category, fn_arg))
    /\ UNCHANGED << fn_arg, fn_out >>
    /\ FnOnly

\* the gate reads the artifact
LoadJson ==
    /\ fn_pc \in { "saved", "saved_wrapped", "saved_bare" }
    /\ fn_pc' = CASE fn_pc = "saved" -> "loaded"
                  [] fn_pc = "saved_wrapped" -> "loaded_wrapped"
                  [] fn_pc = "saved_bare" -> "loaded_bare"
    /\ fn_out' = RawOfPy(FileData(JsonLoad(fn_file)))
    /\ UNCHANGED << fn_arg, fn_file >>
    /\ FnOnly

RoundTripNext ==
    \/ SaveJson
    \/ DumpWrapped
    \/ DumpBare
    \/ LoadJson

RoundTripSpec == RoundTripInit /\ [][RoundTripNext]_vars

-----------------------------------------------------------------------------
(* The clean-up of a follow-up payload, applied to bounded payloads *)

\* most tokens of a payload content
MaxTokens == 4

\* text pieces, line-break markup, another tag, a newline and its escape
PayloadTokens == { "A", "B", "<br>", "<b>", "\n", "\\n" }

RECURSIVE TokenSeqs(_)
TokenSeqs(n) ==
    IF n = 0 THEN { << >> }
    ELSE TokenSeqs(n - 1)
         \cup { Append(t, tok) : t \in { u \in TokenSeqs(n - 1) : Len(u) = n - 1 },
                                 tok \in PayloadTokens }

Payloads == TokenSeqs(MaxTokens) \cup { << "A", "<br>", "B", "\n", "C" >> }

SanitizeInit ==
    /\ category = "tanaman"
    /\ save_to_file = TRUE
    /\ listing = CHOOSE l \in GateListings : TRUE
    /\ pc = "returned"
    /\ header_row_index = -1
    /\ field_to_col_map = << >>
    /\ row_cursor = 0
    /\ extracted_data = << >>
    /\ dialog_requests = << >>
    /\ futures = << >>
    /\ collect_cursor = 0
    /\ results = {}
    /\ fetch_log = << >>
    /\ ret = NoReturn
    /\ files = {}
    /\ overtaken = FALSE
    /\ now = 0
    /\ handlers = [ c \in Callers |-> IdleHandler ]
    /\ calls = 0
    /\ serial = TRUE
    /\ fetch_history = {}
    /\ site = FreeSite
    /\ SingleRun
    /\ fn_pc = "start"
    /\ fn_arg \in Payloads
    /\ fn_file = << >>
    /\ fn_out = None

\* get_full_text_from_dialog on a 200 answer {"success": true, "textCont": content}
DialogAnswered ==
    /\ fn_pc = "start"
    /\ fn_pc' = "answered"
    /\ fn_out' = GetFullTextFromDialog(
                    Reply(FALSE, 200, TRUE, TRUE, TRUE, fn_arg, << >>))
    /\ UNCHANGED << fn_arg, fn_file >>
    /\ FnOnly

SanitizeNext == DialogAnswered

SanitizeSpec == SanitizeInit /\ [][SanitizeNext]_vars

\* the abstract artifacts of the endpoint model read as their JSON texts do
ArtifactsAgree ==
    /\ fn_pc \in { "saved", "saved_wrapped" } =>
         RawOfPy(FileData(JsonLoad(fn_file))) = ReadJson(WrappedJson(category, fn_arg))
    /\ fn_pc = "saved_bare" =>
         RawOfPy(FileData(JsonLoad(fn_file))) = ReadJson(OtherJson("bare", fn_arg))

\* save_data writes nothing for an empty list and the wrapped form otherwise
SaveDataWrites ==
    /\ fn_pc = "nothing_saved" => fn_arg = << >>
    /\ fn_pc = "saved" => fn_arg # << >> /\ fn_file = JsonDump(JsonData(category, fn_arg))

C16_RerunReturnsTheSame ==
    (run_no = 2 /\ pc = "returned") => ret = first_ret

\* both runs returned two records or more, one of them completed by a
\* follow-up, and a follow-up answer overtook an earlier one
C16_Witness ==
    /\ run_no = 2
    /\ pc = "returned"
    /\ ret.kind = "list"
    /\ Len(ret.data) >= 2
    /\ results # {}
    /\ overtaken
    /\ ret = first_ret

IsDelimiter(t, i) == t[i] = ","

\* a delimiter followed by nothing but white space and another delimiter
DoubleDelimiterAt(t, i) ==
    /\ IsDelimiter(t, i)
    /\ NextNonSpace(t, i) <= Len(t)
    /\ IsDelimiter(t, NextNonSpace(t, i))

\* a delimiter followed by nothing but white space
TrailingDelimiterAt(t, i) ==
    /\ IsDelimiter(t, i)
    /\ NextNonSpace(t, i) > Len(t)

\* the longest run of separators (markup, newlines) in a payload content
IsSeparator(tok) == IsTag(tok) \/ tok \in { "\n", "\\n" }

SeparatorRun(t, i, n) == \A k \in i..(i + n - 1) : k <= Len(t) /\ IsSeparator(t[k])

\* the payload of the spec's example comes out as A, B, C
ExampleSanitized ==
    (fn_pc = "answered" /\ fn_arg = << "A", "<br>", "B", "\n", "C" >>)
    => fn_out = Some(<< "A", ",", " ", "B", ",", " ", "C" >>)

\* the returned text holds no tag and no newline
TagsAndNewlinesGone ==
    fn_pc = "answered" =>
        \A i \in 1..Len(fn_out.text) : ~IsSeparator(fn_out.text[i])

\* payloads without three line breaks in a row come out without a doubled
\* or a trailing delimiter
ShortRunsSanitized ==
    ( fn_pc = "answered"
      /\ \A i \in 1..Len(fn_arg) :
            ~SeparatorRun(SelectSeq(fn_arg, LAMBDA tok : tok \notin { "<b>" }), i, 3) )
    => \A i \in 1..Len(fn_out.text) :
          ~DoubleDelimiterAt(fn_out.text, i) /\ ~TrailingDelimiterAt(fn_out.text, i)

\* C17: for every successful payload content the text that
\* get_full_text_from_dialog returns holds no markup tag and no newline, no
\* two delimiters in a row and no trailing delimiter, and the content
\* A<br>B\nC comes out as A, B, C
C17_SanitizedPayload ==
    fn_pc = "answered" =>
        /\ fn_out.some
        /\ \A i \in 1..Len(fn_out.text) :
              /\ ~IsSeparator(fn_out.text[i])
              /\ ~DoubleDelimiterAt(fn_out.text, i)
              /\ ~TrailingDelimiterAt(fn_out.text, i)
        /\ fn_arg = << "A", "<br>", "B", "\n", "C" >>
             => fn_out.text = << "A", ",", " ", "B", ",", " ", "C" >>

\* the record list once phase 3 is over
Integrated == pc = "finish" \/ (pc = "returned" /\ ret.kind = "list")

\* the batch results whose row index is no position of the record list
OutOfRange == { e \in results : e.row_index >= Len(extracted_data) }

\* C18: phase 3 never addresses a record outside the final list: no run
\* ends in an IndexError, and with a batch result whose row index is not
\* below the number of retained records the list keeps its length and
\* every field that differs from what the row extractor stored holds the
\* content of a batch result for that very position and field
C18_PhaseThreeStaysInRange ==
    /\ ret # IndexError
    /\ (Integrated /\ OutOfRange # {}) =>
          /\ Len(extracted_data) = PosOf(Len(RowsAfterHeader))
          /\ \A i \in 1..Len(extracted_data) : \A f \in FieldSet(category) :
                extracted_data[i][f] # RowData(category, SourceRow(i), field_to_col_map)[f]
                => \E e \in results :
                      /\ e.row_index = i - 1
                      /\ e.field = f
                      /\ e.content = extracted_data[i][f]

\* a run returned a record while a batch result with content pointed
\* beyond the list
C18_Witness ==
    /\ pc = "returned"
    /\ ret.kind = "list"
    /\ Len(ret.data) >= 1
    /\ \E e \in OutOfRange : e.content # << >>

\* no row after the header row is skipped for having no cells or discarded
\* for having no non-empty field
NoRowDropped == \A r \in 1..Len(RowsAfterHeader) : NonEmptyRow(r)

\* C19: when no row after the header row is skipped or discarded, the row
\* index of every deferred request is the position of the record built from
\* the row that held the truncated cell, and every non-empty follow-up
\* content that the batch kept is in that record under the request's field
C19_IndexMatchesWhenNoRowDropped ==
    (ret.kind = "list" /\ NoRowDropped) =>
        \A k \in 1..Len(dialog_requests) :
            LET r == dialog_requests[k].row_index + 1
            IN  /\ r \in 1..Len(ret.data)
                /\ r = PosOf(r)
                /\ SourceRow(r) = DataRow(r)
                /\ IsDeferred(category, DataRow(r), field_to_col_map,
                              dialog_requests[k].field)
                /\ (category = "tanaman" /\ FollowUpKept(k))
                     => ret.data[r][dialog_requests[k].field]
                           = futures[k].value.content.text

\* three rows were retained, the last two hold a truncated cell, and both
\* follow-up contents were written
C19_Witness ==
    /\ ret.kind = "list"
    /\ category = "tanaman"
    /\ NoRowDropped
    /\ Len(ret.data) = 3
    /\ \E k \in 1..Len(dialog_requests) :
          dialog_requests[k].row_index = 1 /\ FollowUpKept(k)
    /\ \E k \in 1..Len(dialog_requests) :
          dialog_requests[k].row_index = 2 /\ FollowUpKept(k)

\* a cell of the row carries a data-field tag of the schema
HasSchemaTag(row) == \E j \in 1..Len(row) : row[j].field \in FieldSet(category)

\* the column resolver is over and found a header row
Resolved == pc \in { "rows", "batch", "integrate", "finish" } \/ ret.kind = "list"

\* C20: the header row is the first row of the table with a cell tagged
\* with a schema field; the column map holds exactly the schema tags of
\* that row with the (zero-based) position of the cell that carries each;
\* rows after it, tagged or not, leave the map as it is, and every record
\* is read from a row strictly after the header row
C20_FirstTaggedRowIsHeader ==
    Resolved =>
        LET h == header_row_index + 1
        IN  /\ h \in 1..Len(listing.rows)
            /\ HasSchemaTag(listing.rows[h])
            /\ \A i \in 1..(h - 1) : ~HasSchemaTag(listing.rows[i])
            /\ DOMAIN field_to_col_map
                  = { listing.rows[h][j].field : j \in 1..Len(listing.rows[h]) }
                    \cap FieldSet(category)
            /\ \A f \in DOMAIN field_to_col_map :
                  /\ field_to_col_map[f] + 1 \in 1..Len(listing.rows[h])
                  /\ listing.rows[h][field_to_col_map[f] + 1].field = f
            /\ row_cursor <= Len(listing.rows) - h
            /\ pc = "rows" =>
                  \A i \in 1..Len(extracted_data) :
                      \E r \in (h + 1)..(h + row_cursor) :
                          extracted_data[i]
                             = RowData(category, listing.rows[r], field_to_col_map)

\* a table with a second tagged row after the header row was read to its
\* end: the map is still the header row's and the second tagged row gave a
\* record
C20_Witness ==
    /\ pc = "rows"
    /\ header_row_index = 0
    /\ Len(listing.rows) >= 2
    /\ listing.rows[2] = HeaderSwapped
    /\ row_cursor = Len(listing.rows) - 1
    /\ field_to_col_map["no_pensijilan"] = 0
    /\ extracted_data # << >>
    /\ extracted_data[1]["no_pensijilan"] = << "Jenis" >>

\* the artifacts that hold the returned records
ArtifactsOfRun == { f \in files : f.category = category /\ f.content.data = ret.data }

\* C21: the phases of a run follow one another: no follow-up request is sent
\* and no future exists while rows are still being extracted; an artifact is
\* there only once the run has returned a list, it was written by a run that
\* saves, it holds the returned records, and every batch result that phase 3
\* assigns is in those records; a saving run that returns a non-empty list
\* has written its artifact by the time it returns
C21_PhasesInOrder ==
    /\ pc \in { "start", "fetched", "located", "rows" }
          => fetch_log = << >> /\ futures = << >> /\ results = {}
    /\ pc \in { "batch", "integrate", "finish" } => row_cursor = Len(RowsAfterHeader)
    /\ files # {} =>
          /\ pc = "returned"
          /\ ret.kind = "list"
          /\ save_to_file
          /\ files = ArtifactsOfRun
    /\ (pc = "returned" /\ ret.kind = "list") =>
          /\ (save_to_file /\ ret.data # << >>) => ArtifactsOfRun # {}
          /\ \A e \in Assigned(ret.data, results) :
                ret.data[e.row_index + 1][e.field] = e.content

\* a tanaman run that sent follow-ups, had one assigned and saved its list
C21_Witness ==
    /\ pc = "returned"
    /\ category = "tanaman"
    /\ ret.kind = "list"
    /\ fetch_log # << >>
    /\ Assigned(ret.data, results) # {}
    /\ ArtifactsOfRun # {}

\* how often x occurs in a sequence
Count(seq, x) == Cardinality({ i \in 1..Len(seq) : seq[i] = x })

RequestUrls == [ k \in 1..Len(dialog_requests) |-> dialog_requests[k].url ]

\* the futures a worker has taken up
Started == { k \in 1..Len(futures) : futures[k].state # "queued" }

\* the batch is over
BatchOver ==
    futures # << >> /\ pc \in { "integrate", "finish", "returned" }

\* C22: every deferred request is consumed exactly once: the batch holds one
\* future per request, a follow-up is sent once for every future a worker
\* took up and never for another, at the end of the batch every request's
\* reference was fetched exactly as often as it was enqueued and every
\* future was collected once, and each entry of the result map comes from
\* exactly one request, so phase 3 assigns a request's content at most once
C22_RequestsConsumedOnce ==
    /\ (pc = "batch" \/ BatchOver) =>
          /\ Len(futures) = Len(dialog_requests)
          /\ Len(fetch_log) = Cardinality(Started)
          /\ collect_cursor <= Len(futures)
          /\ \A u \in Range(UrlNames) :
                Count(fetch_log, u)
                   = Cardinality({ k \in Started : dialog_requests[k].url = u })
    /\ BatchOver =>
          /\ \A u \in Range(UrlNames) : Count(fetch_log, u) = Count(RequestUrls, u)
          /\ collect_cursor = Len(futures)
          /\ \A e \in results :
                Cardinality({ k \in 1..Len(dialog_requests) :
                                /\ dialog_requests[k].row_index = e.row_index
                                /\ dialog_requests[k].field = e.field }) = 1
          /\ Cardinality(Assigned(extracted_data, results)) <= Len(dialog_requests)

\* a batch of three requests is over, with one content kept, one follow-up
\* failed and one timed out
C22_Witness ==
    /\ BatchOver
    /\ Len(dialog_requests) = 3
    /\ Len(fetch_log) = 3
    /\ \E k \in 1..3 : FollowUpKept(k)
    /\ \E k \in 1..3 : ~futures[k].timed_out /\ ~futures[k].value.content.some
    /\ \E k \in 1..3 : futures[k].timed_out

\* the (position, field) slots whose value is not the one row extraction stored
ChangedFrom(extracted) ==
    { << i, f >> \in (1..Len(extracted_data)) \X FieldSet(category) :
        extracted_data[i][f] # extracted[i][f] }

ChangedSlots == ChangedFrom(TableRecords)

\* C23: the batch hands the records of row extraction on untouched, and
\* phase 3 leaves the number of records as it is and changes only
\* slots (row index, field) named by a deferred request whose follow-up gave
\* non-empty content that the batch kept, writing that content; every other
\* field of every record keeps the value of row extraction, and no more
\* slots change than requests yielded content
C23_PhaseThreeFrame ==
    /\ pc = "integrate" => extracted_data = TableRecords
    /\ Integrated =>
          LET extracted == TableRecords
              changed == ChangedFrom(extracted)
          IN  /\ Len(extracted_data) = Len(extracted)
              /\ \A s \in changed :
                    \E k \in 1..Len(dialog_requests) :
                        /\ category = "tanaman"
                        /\ dialog_requests[k].row_index = s[1] - 1
                        /\ dialog_requests[k].field = s[2]
                        /\ FollowUpKept(k)
                        /\ extracted_data[s[1]][s[2]] = futures[k].value.content.text
              /\ Cardinality(changed)
                    <= Cardinality({ k \in 1..Len(futures) : FollowUpKept(k) })

\* phase 3 changed one slot of a list of three records whose rows held two
\* deferred requests, one of which failed
C23_Witness ==
    /\ pc = "finish"
    /\ Len(extracted_data) = 3
    /\ Len(dialog_requests) = 2
    /\ Cardinality(ChangedSlots) = 1
    /\ \E k \in 1..2 : FollowUpFailed(k)

\* field f of the r-th row after the header is read from a cell whose text
\* holds the marker and that carries no follow-up link
UnlinkedMarker(r, f) ==
    /\ f \in DOMAIN field_to_col_map
    /\ Len(DataRow(r)) > field_to_col_map[f]
    /\ HasMoreMarker(DataRow(r)[field_to_col_map[f] + 1].text)
    /\ DataRow(r)[field_to_col_map[f] + 1].link = ""

\* the rows among the first n after the header that were appended as records
RowsKept(n) ==
    { r \in 1..n : \E i \in 1..Len(extracted_data) :
        extracted_data[i] = RowData(category, DataRow(r), field_to_col_map) }

\* C24: in the tanaman producer a cell with the marker and without a
\* follow-up link enqueues no request, and its record holds the text without
\* the trailing marker and without the comma before it ('a,More ...' gives
\* 'a', 'More ...' gives the empty string, a text that does not end in the
\* marker stays); a row whose only text is such a marker is discarded
C24_UnlinkedMarkerCleaned ==
    (category = "tanaman" /\ pc = "rows") =>
        \A r \in 1..row_cursor : \A f \in FieldSet(category) :
            UnlinkedMarker(r, f) =>
                LET text == DataRow(r)[field_to_col_map[f] + 1].text
                    others == \E g \in FieldSet(category) \ { f } :
                                 /\ g \in DOMAIN field_to_col_map
                                 /\ Len(DataRow(r)) > field_to_col_map[g]
                                 /\ DataRow(r)[field_to_col_map[g] + 1].text # << >>
                                 /\ ~UnlinkedMarker(r, g)
                IN  /\ \A k \in 1..Len(dialog_requests) :
                          ~( dialog_requests[k].row_index = r - 1
                             /\ dialog_requests[k].field = f )
                    /\ (text = TxtOnlyMore /\ ~others) => r \notin RowsKept(row_cursor)
                    /\ text # TxtOnlyMore =>
                          /\ PosOf(r) \in 1..Len(extracted_data)
                          /\ LET stored == extracted_data[PosOf(r)][f]
                             IN  /\ stored = CleanMoreSuffix(text)
                                 /\ text = TxtTrunc => stored = << "a" >>
                                 /\ text = TxtMoreInside => stored = TxtMoreInside

\* the row with two unlinked marker cells gave a record and a later row
\* that holds nothing but the marker was discarded
C24_Witness ==
    /\ category = "tanaman"
    /\ pc = "rows"
    /\ row_cursor = 2
    /\ DataRow(1) = UnlinkedMarkerRow
    /\ Len(DataRow(2)) = 2
    /\ DataRow(2)[2].text = TxtOnlyMore
    /\ Len(extracted_data) = 1
    /\ extracted_data[1]["jenis_tanaman"] = << "a" >>
    /\ dialog_requests = << >>

\* the forms of an artifact that json.load accepts
ParsedForms == { "wrapped", "bare", "object", "zero", "number", "null" }

\* C25: a data request that read a fresh artifact which parses as JSON ends
\* either with the records of that artifact, served from the cache, or with
\* a call of the producer; whatever the JSON value is, the artifact itself
\* never makes the request end in a server error
C25_ParsedArtifactNeverErrors ==
    \A c \in Callers :
        LET h == handlers[c]
        IN  ( /\ h.pc = "done"
              /\ h.endpoint = "data"
              /\ h.has_file
              /\ IsFresh(h.checked_at - h.latest_file.mtime)
              /\ h.file_read.content.form \in ParsedForms )
            => \/ /\ h.response.status = 200
                  /\ h.response.source = "cache"
                  /\ h.produced = "no"
                  /\ ServesRecordsOf(h.response, h.file_read.content.data)
               \/ h.produced = "save_true"

\* fresh artifacts of the well-formed kinds and those that make the reader
\* fail are handled as the claim says
ListAndFailingArtifactsHandled ==
    \A c \in Callers :
        LET h == handlers[c]
        IN  ( /\ h.pc = "done"
              /\ h.endpoint = "data"
              /\ h.has_file
              /\ IsFresh(h.checked_at - h.latest_file.mtime)
              /\ h.file_read.content.form \in { "wrapped", "bare", "number", "null", "corrupt" } )
            => \/ /\ h.response.status = 200
                  /\ h.response.source = "cache"
                  /\ h.produced = "no"
                  /\ ServesRecordsOf(h.response, h.file_read.content.data)
               \/ h.produced = "save_true"

\* the step-by-step producer writes only in its last step, when it was asked
\* to save and holds a record
ProducerWritesOnlyWhenSaving ==
    [][ files' # files =>
          /\ pc = "finish"
          /\ save_to_file
          /\ extracted_data # << >>
          /\ files' = SaveData(files, category, extracted_data, now) ]_vars

\* C26: the set of artifacts changes only when a producer run that was
\* called with save_to_file=True returns a non-empty list, and then by the
\* artifact of that list; a run that fails, a run that returns an empty
\* list, and every run of the download and stats handlers leave it as it is
C26_PersistenceFrame ==
    [][ files' # files =>
          \E c \in Callers :
              /\ handlers[c].pc = "fetching"
              /\ handlers[c].endpoint = "data"
              /\ handlers[c].produced = "save_true"
              /\ handlers'[c].returned.kind = "list"
              /\ handlers'[c].returned.data # << >>
              /\ \A f \in files' \ files :
                    /\ f.category = handlers[c].category
                    /\ f.content = WrappedJson(f.category, handlers'[c].returned.data) ]_vars

\* with no artifact in the directory a download run returned a record, the
\* handler answered, and still no artifact is there
C26_Witness ==
    /\ files = {}
    /\ \E c \in Callers :
          /\ handlers[c].pc = "done"
          /\ handlers[c].endpoint = "download"
          /\ handlers[c].produced = "save_false"
          /\ handlers[c].returned.kind = "list"
          /\ handlers[c].returned.data # << >>
          /\ handlers[c].response.status = 200

\* C27: a data endpoint never serves stale data: a success answered from
\* the cache carries the records of an artifact of the handler's category
\* that was the newest one when the handler looked and less than one day
\* old at that moment, with no producer run; and when the handler found no artifact or a stale one and the
\* producer failed, the answer is an error that carries no records
C27_NeverServesStale ==
    \A c \in Callers :
      LET h == handlers[c]
      IN  (h.pc = "done" /\ h.endpoint = "data") =>
            /\ (h.response.status = 200 /\ h.response.source = "cache") =>
                  /\ h.produced = "no"
                  /\ h.has_file
                  /\ h.latest_file \in NewestSeen(h)
                  /\ h.latest_file.category = h.category
                  /\ h.file_read.category = h.category
                  /\ h.file_read.stamp = h.latest_file.stamp
                  /\ h.checked_at - h.latest_file.mtime < OneDay
                  /\ ServesRecordsOf(h.response, h.file_read.content.data)
            /\ ( /\ ~h.has_file \/ h.checked_at - h.latest_file.mtime >= OneDay
                 /\ h.returned.kind \in { "none", "raise" } )
               => /\ h.response.status = 500
                  /\ h.response.data = << >>

\* a call that found an artifact with records, one day old, and whose fetch
\* failed was answered with an error
C27_Witness ==
    \E c \in Callers :
      LET h == handlers[c]
      IN  /\ h.pc = "done"
          /\ h.endpoint = "data"
          /\ h.has_file
          /\ h.file_age = OneDay
          /\ HoldsRecords(h.latest_file.content)
          /\ h.latest_file.content.data # << >>
          /\ h.returned = ReturnNone
          /\ h.response.status = 500

\* every future of the batch is resolved and was collected
BatchResolved ==
    /\ collect_cursor = Len(futures)
    /\ \A k \in 1..Len(futures) :
          /\ futures[k].state = "done"
          /\ futures[k].timed_out \/ futures[k].value.content = None
                \/ futures[k].value.content.some

\* C28: once the batch of follow-ups has started, whichever of them
\* succeed, fail or time out, the run eventually returns its record list
\* with every request of the batch resolved to a content or to a failure
C28_BatchTerminates ==
    (pc = "batch") ~> (pc = "returned" /\ ret.kind = "list" /\ BatchResolved)

\* a run returned after the collecting loop had given up on all three of
\* its follow-ups
C28_Witness ==
    /\ pc = "returned"
    /\ ret.kind = "list"
    /\ Len(futures) = 3
    /\ \A k \in 1..3 : futures[k].timed_out /\ futures[k].state = "done"

====
